---- MODULE Spec2Model ----
(***************************************************************************)
(* Model of the multi-lingual audio pipeline: the five entry points        *)
(*   handler          src/lambda_src/handler.py            lambda_handler   *)
(*   lambda_function  src/terraform/.../lambda_function.py lambda_handler   *)
(*   process_a        src/process_a.py         AudioProcessor.process_file  *)
(*   process_audio    src/process_audio.py     AudioProcessor.process_file  *)
(*   scripts          src/scripts/process_audio.py  process_audio_file      *)
(* One run of one entry point is one behaviour of Spec.  The providers      *)
(* (S3, Transcribe, Translate, Polly) are the environment: every call may   *)
(* succeed or raise, every status poll may report any job status.           *)
(***************************************************************************)
EXTENDS Integers, Sequences, FiniteSets, TLC

VARIABLES
    prog,       \* which entry point this run executes
    pc,         \* position of the run in the entry point's code
    key,        \* handler: the S3 object key of Records[0]; command-line
                \* programs: the path of the input file
    meta,       \* handler: the 'env' entry of the source object's metadata now
    meta_changes, \* handler: how often the metadata was rewritten during the run
    output_key, \* the OutputKey given to start_transcription_job (<<>> if none)
    doc,        \* the result document the transcription job writes on COMPLETED
    cancelled,  \* handler: whether cancellation of the run has been requested
    env,        \* environment tag / prefix of the run ("" until resolved)
    targets,    \* ordered target languages (handler: TARGET_LANGUAGES)
    voices,     \* handler: languages with an entry in VOICE_MAPPING
    idx,        \* handler: index of the language being processed
    records,    \* lambda_function: the keys of event['Records']
    ridx,       \* lambda_function: index of the record being processed
    bound,      \* lambda_function: whether local `filename` has been assigned
    tries0,     \* AudioProcessor: initial value of max_tries
    max_tries,  \* AudioProcessor: remaining value of max_tries
    polls,      \* number of get_transcription_job calls issued so far
    status,     \* TranscriptionJobStatus seen by the latest poll ("NONE" before)
    reason,     \* FailureReason of the job: <<>> when absent, <<r>> when present
    log,        \* external calls issued so far, in order (of the status polls,
                \* which `polls` counts, only a raising one is listed)
    store,      \* artifacts successfully written to the output store
    err,        \* the exception in flight or raised to the caller
    ret,        \* value returned to the caller (<<>> while running / on raise)
    text,       \* transcript_text of a run / the text given to translate_text
    limit,      \* translate_text: max_length / max_chunk_size
    provider,   \* translate_text: how the translation provider answers a chunk
    sent,       \* translate_text: the chunks passed to the provider, in order
    result,     \* translate_text: the text returned; synthesize_speech: the audio
    spoken,     \* synthesize_speech: the chunks passed to the provider, in order
    runs,       \* concurrent runs: the local variables of each run
    jobs,       \* concurrent runs: the transcription jobs that exist, by name
    files,      \* concurrent runs: the files under /tmp, by path
    uploads,    \* concurrent runs: what each run has uploaded
    main        \* command-line programs: the locals of main() and its exit status

\* the state of one run of an entry point
pvars == <<prog, pc, key, meta, meta_changes, output_key, doc, cancelled, env, targets, voices, idx, records, ridx,
           bound, tries0, max_tries, polls, status, reason, log, store, err, ret>>
\* the state of one call of translate_text
tvars == <<text, limit, provider, sent, result, spoken>>
\* the state of two runs executing at the same time
cvars == <<runs, jobs, files, uploads>>
vars == <<pvars, tvars, cvars, main>>

----------------------------------------------------------------------------
(* Bounds of the model *)

\* longest TARGET_LANGUAGES list explored
MaxTargets == 2
\* poll caps explored besides the source's default: 0..MaxTries
MaxTries == 3
\* value at which the poll counter of an uncapped wait loop saturates
MaxPolls == 3
\* longest event['Records'] list explored for lambda_function
MaxRecords == 2
\* longest text explored for translate_text, in characters
MaxLen == 4
\* largest chunk limit explored for translate_text
MaxLimit == 4
\* chunk limit of a command-line run, standing for max_length / max_chunk_size
RunLimit == 2
\* how often the source object's metadata may be rewritten during a handler run
MaxMetaChanges == 1

(* Program constants *)

\* max_tries = 60
DefaultMaxTries == 60

----------------------------------------------------------------------------
(* Value domains *)

Progs == {"handler", "lambda_function", "process_a", "process_audio", "scripts"}
CliProgs == {"process_a", "process_audio", "scripts"}

Langs == {"es", "fr", "xx"}
\* TARGET_LANGUAGES entries: ''.split(',') is [''], so "" is a possible entry
HandlerLangs == {"es", "fr", ""}
\* ENV_PREFIX = os.environ.get('ENV_PREFIX', 'prod')
ENV_PREFIX == "prod"
Envs == {"beta", "prod"}
NonTerminal == {"QUEUED", "IN_PROGRESS"}
Terminal == {"COMPLETED", "FAILED"}
Statuses == NonTerminal \cup Terminal
ReasonOpts == {<<>>, <<"bad media">>, <<"Unknown">>}

NoErr == [type |-> "none", msg |-> <<>>]
Exc(t, m) == [type |-> t, msg |-> m]

\* an S3 object key, kept as the three parts the code inspects
Key(d, n, e) == [dir |-> d, name |-> n, ext |-> e]
NoKey == Key("", "", "")
HandlerKeys == {Key("audio_inputs/", n, e) : n \in {"a", "beta-a"},
                                              e \in {".mp3", ".MP3", ".txt"}}
                   \cup {Key("misc/", "beta-a", ".mp3")}
\* the input file of a command-line run
InputFile == Key("audio_inputs/", "a", ".mp3")
RecordKeys == {Key("audio_inputs/", "a", ".mp3"), Key("misc/", "a", ".mp3"),
               Key("audio_inputs/", "a", ".txt")}

\* main() before it has run: the files found by glob, the position of the
\* for loop, the files handed to process_file so far and how each call ended,
\* the `results` list of scripts/process_audio.py, the two counters, and the
\* exit status of the process (<<>> while it runs)
NoMain == [mp3_files |-> <<>>, next |-> 1, attempted |-> <<>>, outcomes |-> <<>>,
           results |-> <<>>, success_count |-> 0, error_count |-> 0,
           exit_status |-> <<>>]

SeqsUpTo(S, n) == UNION {[1..k -> S] : k \in 0..n}
Range(s) == {s[i] : i \in DOMAIN s}

\* one external call: op, the artifact kind (for synthesis: the voice) or "",
\* the language or "", and whether the call succeeded
Ev(op, kind, lang, ok) == [op |-> op, kind |-> kind, lang |-> lang, ok |-> ok]
Emit(e) == log' = Append(log, e)

\* the filename stem the object keys of the run are built from:
\* os.path.splitext(os.path.basename(key))[0], Path(input_file).stem,
\* key.split('/')[-1].replace('.mp3','')
Stem == IF prog = "lambda_function" /\ ridx \in DOMAIN records
        THEN records[ridx].name
        ELSE key.name

\* the object key the program builds for an artifact, as the parts of its
\* f-string; process_a.py puts no environment segment in front
ObjectKey(p, e, kind, lang) ==
    LET prefix == IF p = "process_a" THEN <<>> ELSE <<e, "/">>
    IN  CASE kind = "audio_inputs"  -> prefix \o <<kind, "/", key.name, key.ext>>
          [] kind = "transcripts"   -> prefix \o <<kind, "/", Stem, ".txt">>
          [] kind = "translations"  -> prefix \o <<kind, "/", Stem, "_", lang, ".txt">>
          [] kind = "audio_outputs" -> prefix \o <<kind, "/", Stem, "_", lang, ".mp3">>

\* one stored artifact: the environment, kind and language it was written
\* for, and its object key
Art(e, kind, lang) == [env |-> e, kind |-> kind, lang |-> lang,
                       key |-> ObjectKey(prog, e, kind, lang)]

----------------------------------------------------------------------------
(* Shared steps *)

\* an exception leaves the entry point: nothing else of the run executes
Raise(e) == /\ pc' = "raised"
            /\ err' = e
            /\ ret' = <<>>

\* the entry point returns v to its caller
Return(v) == /\ pc' = "returned"
             /\ ret' = <<v>>
             /\ err' = NoErr

\* dict.get(name, default) on an optional entry
Get(opt, default) == IF opt = <<>> THEN default ELSE opt[1]

\* str.lower() on the extensions of the key domain
Lower(e) == IF e = ".MP3" THEN ".mp3" ELSE e

\* the poll counter; an uncapped loop's count saturates at MaxPolls
CountPoll == polls' = IF polls < MaxPolls \/ prog \in {"process_a", "process_audio"}
                      THEN polls + 1 ELSE polls

----------------------------------------------------------------------------
(* handler.py *)

HFixed == UNCHANGED <<prog, key, meta, meta_changes, doc, cancelled, targets, voices, records, ridx,
                      bound, tries0, max_tries>>
          /\ UNCHANGED <<limit, provider, result, spoken>>
          /\ UNCHANGED cvars
          /\ UNCHANGED main
HFrame == HFixed /\ UNCHANGED <<text, sent>>

\* mutant: the extension test of line 82 left out
HandlerSkips_never(k) == FALSE

\* line 82: not key.lower().endswith('.mp3')
HandlerSkips(k) == Lower(k.ext) # ".mp3"

\* lambda_handler, lines 79-84: Records[0] only; non-mp3 keys are skipped
handler_entry ==
    /\ prog = "handler" /\ pc = "h_entry"
    /\ IF HandlerSkips(key)
       THEN Return([statusCode |-> 200, body |-> [text |-> "Skipped non-mp3"]])
       ELSE pc' = "h_env" /\ UNCHANGED <<err, ret>>
    /\ UNCHANGED <<env, output_key, idx, polls, status, reason, log, store>>
    /\ HFrame

\* mutant: an 'env' entry wins even when it is the empty string
MetadataEnv_emptyWins(head, k) ==
    IF head.ok /\ head.env # <<>>
    THEN head.env[1]
    ELSE IF k.dir = "audio_inputs/" /\ k.name \in {"beta-a"}
         THEN "beta"
         ELSE ENV_PREFIX

\* get_metadata_env: metadata 'env' if non-empty, else "beta" by key prefix,
\* else ENV_PREFIX; a failing head_object is swallowed
MetadataEnv(head, k) ==
    IF head.ok /\ head.env # <<>> /\ head.env[1] # ""
    THEN head.env[1]
    ELSE IF k.dir = "audio_inputs/" /\ k.name \in {"beta-a"}
         THEN "beta"
         ELSE ENV_PREFIX

\* metadata.get('env'): absent, empty or a tag
MetaOpts == {<<>>, <<"">>, <<"stage">>}

HeadResults == {[ok |-> FALSE, env |-> <<>>]} \cup {[ok |-> TRUE, env |-> m] : m \in MetaOpts}

\* one head_object call: it fails, or reports the metadata the object has now
get_metadata_env ==
    /\ prog = "handler" /\ pc = "h_env"
    /\ \E head \in HeadResults :
          /\ head.ok => head.env = meta
          /\ env' = MetadataEnv(head, key)
          /\ Emit(Ev("head_object", "", "", head.ok))
    /\ pc' = "h_start"
    /\ UNCHANGED <<output_key, idx, polls, status, reason, store, err, ret>>
    /\ HFrame

\* mutant: the OutputKey is built from the configured ENV_PREFIX
HandlerOutputKey_envPrefix(e) ==
    <<ENV_PREFIX, "/", "transcripts", "/", ENV_PREFIX, "-", Stem, "-", "uuid", ".json">>

\* line 88 and line 47: OutputKey=f"{env}/transcripts/{job_name}.json" with
\* job_name = f"{env}-{base_filename}-{uuid}"
HandlerOutputKey(e) == <<e, "/", "transcripts", "/", e, "-", Stem, "-", "uuid", ".json">>

\* mutant: the rejection is ignored and the wait for the job begins
HandlerStartRejected_ignored == pc' = "h_poll" /\ UNCHANGED <<err, ret>>

\* lines 41-48 and 91: the ClientError of start_transcription_job is not
\* caught anywhere and leaves lambda_handler
HandlerStartRejected == Raise(Exc("ClientError", <<"start_transcription_job">>))

\* start_transcription: one start_transcription_job call, errors propagate
start_transcription ==
    /\ prog = "handler" /\ pc = "h_start"
    /\ output_key' = HandlerOutputKey(env)
    /\ \E ok \in BOOLEAN :
          /\ Emit(Ev("start_transcription_job", "", "", ok))
          /\ IF ok THEN pc' = "h_poll" /\ UNCHANGED <<err, ret>>
                   ELSE HandlerStartRejected
    /\ UNCHANGED <<env, idx, polls, status, reason, store>>
    /\ HFrame

\* mutant: the wait returns after the first poll whatever the status
HandlerPollNext_noWait(s) == "h_after_wait"

\* mutant: only COMPLETED ends the wait
HandlerPollNext_completedOnly(s) == IF s = "COMPLETED" THEN "h_after_wait" ELSE "h_sleep"

\* wait_for_transcription, lines 53-57: while True, return on a terminal status
HandlerPollNext(s) == IF s \in {"COMPLETED", "FAILED"} THEN "h_after_wait" ELSE "h_sleep"

wait_for_transcription_poll ==
    /\ prog = "handler" /\ pc = "h_poll"
    /\ CountPoll
    /\ \/ /\ Raise(Exc("ClientError", <<"get_transcription_job">>))
          /\ Emit(Ev("get_transcription_job", "", "", FALSE))
          /\ UNCHANGED <<status, reason>>
       \/ \E s \in Statuses, r \in ReasonOpts :
             /\ (s # "FAILED") => (r = <<>>)
             /\ status' = s
             /\ reason' = r
             /\ pc' = HandlerPollNext(s)
             /\ UNCHANGED <<err, ret, log>>
    /\ UNCHANGED <<env, output_key, idx, store>>
    /\ HFrame

\* wait_for_transcription, lines 58-59: time.sleep(10), then poll again
wait_for_transcription_sleep ==
    /\ prog = "handler" /\ pc = "h_sleep"
    /\ pc' = "h_poll"
    /\ UNCHANGED <<env, output_key, idx, polls, status, reason, log, store, err, ret>>
    /\ HFrame

\* lambda_handler, lines 95-98
HandlerFailure(r) == Exc("RuntimeError", <<"Transcription failed: ", Get(r, "Unknown reason")>>)

\* mutant: the FAILED test of line 95 left out
HandlerJobFailed_never(s) == FALSE

\* line 95: job['TranscriptionJobStatus'] == 'FAILED'
HandlerJobFailed(s) == s = "FAILED"

handler_after_wait ==
    /\ prog = "handler" /\ pc = "h_after_wait"
    /\ IF HandlerJobFailed(status)
       THEN Raise(HandlerFailure(reason))
       ELSE pc' = "h_download" /\ UNCHANGED <<err, ret>>
    /\ UNCHANGED <<env, output_key, idx, polls, status, reason, log, store>>
    /\ HFrame

\* a result document: whether it has results.transcripts[0].transcript, and
\* the value of that field
Document(t) == [shape |-> TRUE, transcript |-> t]
Malformed == [shape |-> FALSE, transcript |-> <<>>]

\* the JSON text of a result document, as stored by the job
Body(d) == IF d.shape
           THEN <<"{", "results", "transcripts", "transcript", ":">> \o d.transcript \o <<"}">>
           ELSE <<"{", "}">>

\* the outcomes of fetching and parsing document d: the fetch fails, or the
\* field is extracted, or the field is missing
Downloads(d) == {"io"} \cup (IF d.shape THEN {"ok"} ELSE {"shape"})

\* download_transcript: urlopen + json.load + results.transcripts[0].transcript
download_transcript ==
    /\ prog = "handler" /\ pc = "h_download"
    /\ \E res \in Downloads(doc) :
          /\ Emit(Ev("get_transcript", "", "", res = "ok"))
          /\ CASE res = "ok"    -> /\ pc' = "h_put_transcript"
                                    /\ text' = doc.transcript
                                    /\ UNCHANGED <<err, ret>>
               [] res = "io"    -> Raise(Exc("URLError", <<"urlopen">>)) /\ UNCHANGED text
               [] res = "shape" -> Raise(Exc("KeyError", <<"results">>)) /\ UNCHANGED text
    /\ UNCHANGED <<env, output_key, idx, polls, status, reason, store, sent>>
    /\ HFixed

\* first position of the per-language loop, or the return after it
HandlerLoop(i) == IF i <= Len(targets) THEN "h_translate" ELSE "h_return"

\* lambda_handler, lines 104-105: upload_text of the transcript
handler_put_transcript ==
    /\ prog = "handler" /\ pc = "h_put_transcript"
    /\ \E ok \in BOOLEAN :
          /\ Emit(Ev("put_object", "transcripts", "", ok))
          /\ IF ok THEN /\ store' = store \cup {Art(env, "transcripts", "")}
                        /\ idx' = 1
                        /\ pc' = HandlerLoop(1)
                        /\ UNCHANGED <<err, ret>>
                   ELSE /\ Raise(Exc("ClientError", <<"put_object">>))
                        /\ UNCHANGED <<store, idx>>
    /\ UNCHANGED <<env, output_key, polls, status, reason>>
    /\ HFrame

\* lambda_handler, lines 109-110: translate.translate_text for targets[idx]
handler_translate ==
    /\ prog = "handler" /\ pc = "h_translate"
    /\ \E ok \in BOOLEAN :
          /\ Emit(Ev("translate_text", "", targets[idx], ok))
          /\ IF ok THEN pc' = "h_put_translation" /\ UNCHANGED <<err, ret>>
                   ELSE Raise(Exc("ClientError", <<"translate_text">>))
    /\ sent' = Append(sent, text)
    /\ UNCHANGED <<env, output_key, idx, polls, status, reason, store, text>>
    /\ HFixed

\* lambda_handler, lines 111-112: upload_text of the translation
handler_put_translation ==
    /\ prog = "handler" /\ pc = "h_put_translation"
    /\ \E ok \in BOOLEAN :
          /\ Emit(Ev("put_object", "translations", targets[idx], ok))
          /\ IF ok THEN /\ store' = store \cup {Art(env, "translations", targets[idx])}
                        /\ pc' = "h_voice"
                        /\ UNCHANGED <<err, ret>>
                   ELSE /\ Raise(Exc("ClientError", <<"put_object">>))
                        /\ UNCHANGED store
    /\ UNCHANGED <<env, output_key, idx, polls, status, reason>>
    /\ HFrame

\* mutant: the `if not voice_id: continue` guard left out
HandlerVoice_noSkip(lang) == "h_synth"

\* lambda_handler, lines 114-117: VOICE_MAPPING.get(lang); no voice: continue
HandlerVoice(lang) == IF lang \in voices THEN "h_synth" ELSE "h_next"

handler_voice ==
    /\ prog = "handler" /\ pc = "h_voice"
    /\ pc' = HandlerVoice(targets[idx])
    /\ UNCHANGED <<env, output_key, idx, polls, status, reason, log, store, err, ret>>
    /\ HFrame

\* synthesize_speech (lines 72-75) as called on line 119
handler_synthesize_speech ==
    /\ prog = "handler" /\ pc = "h_synth"
    /\ \E ok \in BOOLEAN :
          /\ Emit(Ev("synthesize_speech", "VOICE_MAPPING", targets[idx], ok))
          /\ IF ok THEN pc' = "h_put_audio" /\ UNCHANGED <<err, ret>>
                   ELSE Raise(Exc("ClientError", <<"synthesize_speech">>))
    /\ UNCHANGED <<env, output_key, idx, polls, status, reason, store>>
    /\ HFrame

\* lambda_handler, lines 120-122: s3.put_object of the audio
handler_put_audio ==
    /\ prog = "handler" /\ pc = "h_put_audio"
    /\ \E ok \in BOOLEAN :
          /\ Emit(Ev("put_object", "audio_outputs", targets[idx], ok))
          /\ IF ok THEN /\ store' = store \cup {Art(env, "audio_outputs", targets[idx])}
                        /\ pc' = "h_next"
                        /\ UNCHANGED <<err, ret>>
                   ELSE /\ Raise(Exc("ClientError", <<"put_object">>))
                        /\ UNCHANGED store
    /\ UNCHANGED <<env, output_key, idx, polls, status, reason>>
    /\ HFrame

\* the for statement of line 108 advancing to the next language
handler_next ==
    /\ prog = "handler" /\ pc = "h_next"
    /\ idx' = idx + 1
    /\ pc' = HandlerLoop(idx + 1)
    /\ UNCHANGED <<env, output_key, polls, status, reason, log, store, err, ret>>
    /\ HFrame

\* lambda_handler, lines 124-127
handler_return ==
    /\ prog = "handler" /\ pc = "h_return"
    /\ Return([statusCode |-> 200,
               body |-> [text |-> "Processed file", key |-> key, env |-> env]])
    /\ UNCHANGED <<env, output_key, idx, polls, status, reason, log, store>>
    /\ HFrame

\* the environment: the source object's metadata is rewritten while the run
\* is in progress, at most MaxMetaChanges times
metadata_change ==
    /\ prog = "handler" /\ pc \notin {"returned", "raised"}
    /\ meta_changes < MaxMetaChanges
    /\ meta_changes' = meta_changes + 1
    /\ \E m \in MetaOpts \ {meta} : meta' = m
    /\ UNCHANGED <<prog, pc, key, output_key, doc, cancelled, env, targets, voices, idx,
                   records, ridx, bound, tries0, max_tries, polls, status, reason, log, store,
                   err, ret>>
    /\ UNCHANGED tvars
    /\ UNCHANGED cvars
    /\ UNCHANGED main

\* the positions of the wait for the job and of the per-language loop
CancelPoints == {"h_poll", "h_sleep", "h_translate", "h_put_translation", "h_voice",
                 "h_synth", "h_put_audio", "h_next"}

\* the environment: cancellation of the run is requested while it polls the
\* job or processes a target language; no statement of handler.py reads such
\* a request (the loop of lines 53-59 ends on a terminal status only, the
\* loop of lines 108-122 at the end of TARGET_LANGUAGES only)
cancel_signal ==
    /\ prog = "handler" /\ pc \in CancelPoints
    /\ ~cancelled
    /\ cancelled' = TRUE
    /\ UNCHANGED <<prog, pc, key, meta, meta_changes, output_key, doc, env, targets, voices,
                   idx, records, ridx, bound, tries0, max_tries, polls, status, reason, log,
                   store, err, ret>>
    /\ UNCHANGED tvars
    /\ UNCHANGED cvars
    /\ UNCHANGED main

HandlerNext ==
    \/ handler_entry
    \/ get_metadata_env
    \/ start_transcription
    \/ wait_for_transcription_poll
    \/ wait_for_transcription_sleep
    \/ handler_after_wait
    \/ download_transcript
    \/ handler_put_transcript
    \/ handler_translate
    \/ handler_put_translation
    \/ handler_voice
    \/ handler_synthesize_speech
    \/ handler_put_audio
    \/ handler_next
    \/ handler_return

----------------------------------------------------------------------------
(* translate_text of process_a.py, process_audio.py and                     *)
(* scripts/process_audio.py, on texts that are sequences of characters      *)

\* "E" stands for a character whose UTF-8 encoding takes two bytes, such as
\* e-acute; every other character of the alphabet takes one byte
Chars == {"a", "E", ".", "?", " ", "|"}
Texts == SeqsUpTo(Chars, MaxLen)

\* the transcript "Hello. How are you? Fine!" and the answers "Hola.",
\* "Como estas?" (with o-acute and a-acute, two bytes each) and "Bien!"
Hello == <<"H", "e", "l", "l", "o", ".", " ", "H", "o", "w", " ", "a", "r", "e", " ",
           "y", "o", "u", "?", " ", "F", "i", "n", "e", "!">>
Hola == <<"H", "o", "l", "a", ".">>
ComoEstas == <<"C", "o_acute", "m", "o", " ", "e", "s", "t", "a_acute", "s", "?">>
Bien == <<"B", "i", "e", "n", "!">>

\* len(c.encode('utf-8')) of one character
Width(c) == IF c \in {"E", "o_acute", "a_acute"} THEN 2 ELSE 1

\* len(s.encode('utf-8'))
RECURSIVE ByteLen(_)
ByteLen(s) == IF s = <<>> THEN 0 ELSE Width(Head(s)) + ByteLen(Tail(s))

\* s.replace(old, new): leftmost non-overlapping occurrences, old non-empty
RECURSIVE Replace(_, _, _)
Replace(s, old, new) ==
    IF Len(s) < Len(old) THEN s
    ELSE IF SubSeq(s, 1, Len(old)) = old
         THEN new \o Replace(SubSeq(s, Len(old) + 1, Len(s)), old, new)
         ELSE <<Head(s)>> \o Replace(Tail(s), old, new)

\* s.split(c) for a one-character separator: always at least one piece
RECURSIVE Split(_, _)
Split(s, c) ==
    IF \A i \in DOMAIN s : s[i] # c THEN <<s>>
    ELSE LET i == CHOOSE k \in DOMAIN s : s[k] = c /\ \A j \in 1..(k - 1) : s[j] # c
         IN  <<SubSeq(s, 1, i - 1)>> \o Split(SubSeq(s, i + 1, Len(s)), c)

\* s.strip(): leading and trailing whitespace removed
RECURSIVE LStrip(_)
LStrip(s) == IF s # <<>> /\ Head(s) = " " THEN LStrip(Tail(s)) ELSE s
RECURSIVE RStrip(_)
RStrip(s) == IF s # <<>> /\ s[Len(s)] = " " THEN RStrip(SubSeq(s, 1, Len(s) - 1)) ELSE s
Strip(s) == RStrip(LStrip(s))

\* sep.join(parts)
RECURSIVE Join(_, _)
Join(parts, sep) ==
    IF parts = <<>> THEN <<>>
    ELSE IF Len(parts) = 1 THEN parts[1]
         ELSE parts[1] \o sep \o Join(Tail(parts), sep)

\* text.replace('. ', '.|').replace('? ', '?|').replace('! ', '!|').split('|')
Sentences(t) ==
    Split(Replace(Replace(Replace(t, <<".", " ">>, <<".", "|">>),
                          <<"?", " ">>, <<"?", "|">>),
                  <<"!", " ">>, <<"!", "|">>),
          "|")

\* the size the loop compares with the limit: characters in the
\* AudioProcessor classes, encoded bytes in scripts/process_audio.py
Size(p, s) == IF p = "scripts" THEN ByteLen(s) ELSE Len(s)

\* what is appended to current_chunk for one sentence
Piece(p, sentence) == IF p = "scripts" THEN sentence \o <<" ">> ELSE sentence

\* the Text argument of the provider call for current_chunk
Payload(p, chunk) == IF p = "scripts" THEN Strip(chunk) ELSE chunk

\* the `if current_chunk:` guard inside the loop, absent in process_audio.py
LoopFlushes(p, chunk) == p = "process_audio" \/ chunk # <<>>

\* the for loop over the sentences: the chunks sent by it and the last
\* current_chunk, from sentence i on
RECURSIVE ChunkLoop(_, _, _, _, _, _)
ChunkLoop(p, ss, i, cur, out, L) ==
    IF i > Len(ss) THEN [cur |-> cur, out |-> out]
    ELSE IF Size(p, cur) + Size(p, ss[i]) < L
         THEN ChunkLoop(p, ss, i + 1, cur \o Piece(p, ss[i]), out, L)
         ELSE ChunkLoop(p, ss, i + 1, Piece(p, ss[i]),
                        IF LoopFlushes(p, cur) THEN Append(out, Payload(p, cur)) ELSE out,
                        L)

\* the `if len(text) <= max_length` shortcut of the AudioProcessor classes
SentWhole(p, t, L) == p # "scripts" /\ Len(t) <= L

\* the chunks translate_text passes to the provider, in order
Chunks(p, t, L) ==
    IF SentWhole(p, t, L) THEN <<t>>
    ELSE LET r == ChunkLoop(p, Sentences(t), 1, <<>>, <<>>, L)
         IN  IF r.cur # <<>> THEN Append(r.out, Payload(p, r.cur)) ELSE r.out

\* the provider's answer to one chunk: the chunk itself, its Spanish
\* translation, or a fixed text
Answer(mode, chunk) ==
    CASE mode = "echo" -> chunk
      [] mode = "es" /\ chunk = SubSeq(Hello, 1, 6)   -> Hola
      [] mode = "es" /\ chunk = SubSeq(Hello, 8, 19)  -> ComoEstas
      [] mode = "es" /\ chunk = SubSeq(Hello, 21, 25) -> Bien
      [] OTHER -> <<"x">>

\* mutant: the answers joined with nothing between them
Translated_noSpace(p, t, L, mode) ==
    LET cs == Chunks(p, t, L)
    IN  Join([i \in DOMAIN cs |-> Answer(mode, cs[i])], <<>>)

\* translate_text: ' '.join of the answers (the shortcut returns the answer)
Translated(p, t, L, mode) ==
    LET cs == Chunks(p, t, L)
    IN  Join([i \in DOMAIN cs |-> Answer(mode, cs[i])], <<" ">>)

\* text.split(): the maximal runs of non-whitespace characters
RECURSIVE NonEmpty(_)
NonEmpty(parts) ==
    IF parts = <<>> THEN <<>>
    ELSE IF Head(parts) = <<>> THEN NonEmpty(Tail(parts))
         ELSE <<Head(parts)>> \o NonEmpty(Tail(parts))
Words(t) == NonEmpty(Split(t, " "))

\* the for loop over the words of scripts/process_audio.py synthesize_speech:
\* the chunks sent by it and the last current_chunk, from word i on
RECURSIVE WordLoop(_, _, _, _, _)
WordLoop(ws, i, cur, out, L) ==
    IF i > Len(ws) THEN [cur |-> cur, out |-> out]
    ELSE IF Len(cur) + Len(ws[i]) + 1 < L
         THEN WordLoop(ws, i + 1, cur \o ws[i] \o <<" ">>, out, L)
         ELSE WordLoop(ws, i + 1, ws[i] \o <<" ">>,
                       IF cur # <<>> THEN Append(out, Strip(cur)) ELSE out,
                       L)

\* the chunks synthesize_speech passes to the speech provider, in order: the
\* AudioProcessor classes cut the text by the statements of translate_text
\* (process_audio.py again without the `if current_chunk:` guard),
\* scripts/process_audio.py cuts it into words
SynthChunks(p, t, L) ==
    IF p = "scripts"
    THEN LET r == WordLoop(Words(t), 1, <<>>, <<>>, L)
         IN  IF r.cur # <<>> THEN Append(r.out, Strip(r.cur)) ELSE r.out
    ELSE Chunks(p, t, L)

TFrame == UNCHANGED <<key, meta, meta_changes, output_key, doc, cancelled, env, targets, voices, idx, records, ridx, bound, tries0,
                      max_tries, polls, status, reason, log, store, err, ret>>
          /\ UNCHANGED cvars
          /\ UNCHANGED main

translate_text ==
    /\ pc = "t_entry"
    /\ sent' = Chunks(prog, text, limit)
    /\ result' = Translated(prog, text, limit, provider)
    /\ pc' = "t_done"
    /\ UNCHANGED <<prog, text, limit, provider, spoken>>
    /\ TFrame

\* response['AudioStream'].read(): the audio bytes the provider returns for
\* one chunk
Audio(chunk) == <<[mp3 |-> chunk]>>

\* synthesize_speech: b''.join(audio_chunks) / the chunks written to the
\* output file one after the other
Synthesized(p, t, L) ==
    LET cs == SynthChunks(p, t, L)
    IN  Join([i \in DOMAIN cs |-> Audio(cs[i])], <<>>)

synthesize_speech ==
    /\ pc = "t_entry"
    /\ spoken' = SynthChunks(prog, text, limit)
    /\ result' = Synthesized(prog, text, limit)
    /\ pc' = "s_done"
    /\ UNCHANGED <<prog, text, limit, provider, sent>>
    /\ TFrame

TextInit ==
    /\ prog \in CliProgs
    /\ pc = "t_entry"
    /\ \/ text \in Texts /\ limit \in 1..MaxLimit /\ provider \in {"echo", "fixed"}
       \/ text = Hello /\ limit = 15 /\ provider = "es"
    /\ sent = <<>>
    /\ result = <<>>
    /\ spoken = <<>>
    /\ key = NoKey /\ meta = <<>> /\ meta_changes = 0 /\ output_key = <<>>
    /\ doc = Document(text) /\ cancelled = FALSE
    /\ env = "" /\ targets = <<"es">> /\ voices = {} /\ idx = 0
    /\ records = <<>> /\ ridx = 1 /\ bound = FALSE /\ tries0 = 0 /\ max_tries = 0
    /\ polls = 0 /\ status = "NONE" /\ reason = <<>> /\ log = <<>> /\ store = {}
    /\ err = NoErr /\ ret = <<>>
    /\ runs = <<>> /\ jobs = <<>> /\ files = <<>> /\ uploads = {}
    /\ main = NoMain

TextNext ==
    \/ translate_text
    \/ synthesize_speech

\* one call of translate_text or of synthesize_speech on one text
TextSpec == TextInit /\ [][TextNext]_vars

----------------------------------------------------------------------------
(* process_a.py, process_audio.py (class AudioProcessor) and                *)
(* scripts/process_audio.py: one target language, same sequence of steps    *)

\* what no step of a command-line run changes
CBase == UNCHANGED <<prog, key, meta, meta_changes, output_key, doc, cancelled, env, targets, voices, idx,
                     records, ridx, bound, tries0, limit, provider>>
         /\ UNCHANGED cvars
         /\ UNCHANGED main
CFixed == CBase /\ UNCHANGED text
CFrame == CFixed /\ UNCHANGED <<sent, result, spoken>>

\* process_a.py and process_audio.py count the polls down from max_tries;
\* scripts/process_audio.py loops `while True`
HasPollCap(p) == p \in {"process_a", "process_audio"}

\* process_a.py and scripts/process_audio.py delete the job in a finally clause;
\* process_audio.py has none ("Avoid cleanup here unless necessary")
HasCleanup(p) == p \in {"process_a", "scripts"}

\* the language-to-voice dict of synthesize_speech, restricted to Langs
VoiceMapped(p) == {"es", "fr"}
\* voice_mapping.get(target_language, 'Joanna')
VoiceFor(p, lang) == IF lang \in VoiceMapped(p)
                     THEN (IF lang = "es" THEN "Lucia" ELSE "Celine")
                     ELSE "Joanna"

\* process_file re-raises; process_audio_file catches and returns False
Fail(e) == IF prog = "scripts" THEN Return([value |-> FALSE]) ELSE Raise(e)

\* an exception inside transcribe_audio: first the finally clause, if any
FailTranscribe(e) ==
    IF HasCleanup(prog)
    THEN pc' = "c_finally" /\ err' = e /\ UNCHANGED ret
    ELSE Fail(e)

\* Step 1: upload_to_s3 of the input file
process_file_upload ==
    /\ prog \in CliProgs /\ pc = "c_upload"
    /\ \E ok \in BOOLEAN :
          /\ Emit(Ev("upload_file", "audio_inputs", "", ok))
          /\ IF ok THEN /\ store' = store \cup {Art(env, "audio_inputs", "")}
                        /\ pc' = "c_start"
                        /\ UNCHANGED <<err, ret>>
                   ELSE Fail(Exc("ClientError", <<"upload_file">>)) /\ UNCHANGED store
    /\ UNCHANGED <<max_tries, polls, status, reason>>
    /\ CFrame

\* transcribe_audio: start_transcription_job, then max_tries = 60
transcribe_audio_start ==
    /\ prog \in CliProgs /\ pc = "c_start"
    /\ \E ok \in BOOLEAN :
          /\ Emit(Ev("start_transcription_job", "", "", ok))
          /\ IF ok THEN pc' = "c_loop" /\ UNCHANGED <<err, ret>>
                   ELSE FailTranscribe(Exc("ClientError", <<"start_transcription_job">>))
    /\ max_tries' = tries0
    /\ UNCHANGED <<polls, status, reason, store>>
    /\ CFrame

TimedOut == Exc("Exception", <<"Transcription job timed out">>)

\* mutant: off-by-one loop test, `while max_tries >= 0`
LoopEnters_offByOne(p, n) == HasPollCap(p) => n >= 0

\* `while max_tries > 0: max_tries -= 1` / `while True`
LoopEnters(p, n) == HasPollCap(p) => n > 0

transcribe_audio_loop ==
    /\ prog \in CliProgs /\ pc = "c_loop"
    /\ IF LoopEnters(prog, max_tries)
       THEN /\ pc' = "c_poll"
            /\ max_tries' = IF HasPollCap(prog) THEN max_tries - 1 ELSE max_tries
            /\ UNCHANGED <<err, ret>>
       ELSE /\ FailTranscribe(TimedOut)
            /\ UNCHANGED max_tries
    /\ UNCHANGED <<polls, status, reason, log, store>>
    /\ CFrame

CliFailure(r) == Exc("Exception", <<"Transcription failed: ", Get(r, "Unknown")>>)

\* get_transcription_job and the dispatch on its status
transcribe_audio_poll ==
    /\ prog \in CliProgs /\ pc = "c_poll"
    /\ CountPoll
    /\ \/ /\ FailTranscribe(Exc("ClientError", <<"get_transcription_job">>))
          /\ Emit(Ev("get_transcription_job", "", "", FALSE))
          /\ UNCHANGED <<status, reason>>
       \/ \E s \in Statuses, r \in ReasonOpts :
             /\ (s # "FAILED") => (r = <<>>)
             /\ status' = s
             /\ reason' = r
             /\ CASE s = "COMPLETED" -> pc' = "c_download" /\ UNCHANGED <<err, ret>>
                  [] s = "FAILED"    -> FailTranscribe(CliFailure(r))
                  [] OTHER           -> pc' = "c_sleep" /\ UNCHANGED <<err, ret>>
             /\ UNCHANGED log
    /\ UNCHANGED <<max_tries, store>>
    /\ CFrame

\* time.sleep, then the loop test again
transcribe_audio_sleep ==
    /\ prog \in CliProgs /\ pc = "c_sleep"
    /\ pc' = "c_loop"
    /\ UNCHANGED <<max_tries, polls, status, reason, log, store, err, ret>>
    /\ CFrame

\* where a returning transcribe_audio continues
\* mutant: the successful return leaves transcribe_audio past the finally clause
AfterTranscribe_skipsCleanup(p) == "c_put_transcript"

AfterTranscribe(p) == IF HasCleanup(p) THEN "c_finally" ELSE "c_put_transcript"

\* urlopen(transcript_uri), json.loads, results.transcripts[0].transcript
transcribe_audio_download ==
    /\ prog \in CliProgs /\ pc = "c_download"
    /\ \E res \in Downloads(doc) :
          /\ Emit(Ev("get_transcript", "", "", res = "ok"))
          /\ CASE res = "ok"    -> /\ pc' = AfterTranscribe(prog)
                                    /\ text' = doc.transcript
                                    /\ UNCHANGED <<err, ret>>
               [] res = "io"    -> /\ FailTranscribe(Exc("URLError", <<"urlopen">>))
                                    /\ UNCHANGED text
               [] res = "shape" -> /\ FailTranscribe(Exc("KeyError", <<"results">>))
                                    /\ UNCHANGED text
    /\ UNCHANGED <<max_tries, polls, status, reason, store, sent, result, spoken>>
    /\ CBase

\* finally: delete_transcription_job, its own failure swallowed; then the
\* pending exception continues or the transcript is returned
transcribe_audio_finally ==
    /\ prog \in CliProgs /\ pc = "c_finally"
    /\ \E ok \in BOOLEAN : Emit(Ev("delete_transcription_job", "", "", ok))
    /\ IF err # NoErr
       THEN Fail(err)
       ELSE pc' = "c_put_transcript" /\ UNCHANGED <<err, ret>>
    /\ UNCHANGED <<max_tries, polls, status, reason, store>>
    /\ CFrame

\* one upload_to_s3 of an artifact, continuing at `next` on success
CliPut(kind, lang, next) ==
    /\ \E ok \in BOOLEAN :
          /\ Emit(Ev("upload_file", kind, lang, ok))
          /\ IF ok THEN /\ store' = store \cup {Art(env, kind, lang)}
                        /\ pc' = next
                        /\ UNCHANGED <<err, ret>>
                   ELSE Fail(Exc("ClientError", <<"upload_file">>)) /\ UNCHANGED store
    /\ UNCHANGED <<max_tries, polls, status, reason>>
    /\ CFrame

\* the transcript is written locally and uploaded
process_file_put_transcript ==
    /\ prog \in CliProgs /\ pc = "c_put_transcript"
    /\ CliPut("transcripts", "", "c_translate")

\* the transcripts a command-line run may download: the empty one, one that
\* fits the chunk limit of the run and one that is cut in two
RunTexts == {<<>>, <<"a">>, <<"a", ".", " ", "a">>}

\* translate_text and synthesize_speech on the transcripts of a run, with the
\* chunk limit of the run and a provider that returns each chunk unchanged,
\* tabulated: the chunks of each transcript, the text returned after the
\* first n chunks, and the chunks of each such text for the speech provider
RunChunks == [p \in CliProgs |-> [t \in RunTexts |-> Chunks(p, t, RunLimit)]]
RunTranslated ==
    [p \in CliProgs |-> [t \in RunTexts |->
        [n \in 0..Len(RunChunks[p][t]) |->
            Join([i \in 1..n |-> Answer("echo", RunChunks[p][t][i])], <<" ">>)]]]
RunResults ==
    UNION {{RunTranslated[p][t][n] : n \in DOMAIN RunTranslated[p][t]} :
               p \in CliProgs, t \in RunTexts}
RunSynthChunks == [p \in CliProgs |-> [r \in RunResults |-> SynthChunks(p, r, RunLimit)]]

\* the events of the provider calls made for n chunks when call k raises
\* (k = 0: none raises): the calls after a raising one are not made
Calls(op, kind, lang, n, k) ==
    [i \in 1..(IF k = 0 THEN n ELSE k) |-> Ev(op, kind, lang, i # k)]

\* mutant: the except clause swallows the error and the chunks translated so
\* far are returned
ChunkFailureRaises_swallowed(p) == FALSE

\* `except ClientError as e: ... raise` / `except Exception as e: ... raise`
ChunkFailureRaises(p) == TRUE

\* Step 3: translate_text, one provider call per chunk of the transcript; a
\* raising call ends the function
process_file_translate ==
    /\ prog \in CliProgs /\ pc = "c_translate"
    /\ LET cs == RunChunks[prog][text]
       IN  \E k \in 0..Len(cs) :
              /\ log' = log \o Calls("translate_text", "", targets[1], Len(cs), k)
              /\ sent' = IF k = 0 THEN cs ELSE SubSeq(cs, 1, k)
              /\ IF k = 0 \/ ~ChunkFailureRaises(prog)
                 THEN /\ result' = RunTranslated[prog][text][IF k = 0 THEN Len(cs) ELSE k - 1]
                      /\ pc' = "c_put_translation"
                      /\ UNCHANGED <<err, ret>>
                 ELSE /\ Fail(Exc("ClientError", <<"translate_text">>))
                      /\ UNCHANGED result
    /\ UNCHANGED <<max_tries, polls, status, reason, store, spoken>>
    /\ CFixed

process_file_put_translation ==
    /\ prog \in CliProgs /\ pc = "c_put_translation"
    /\ CliPut("translations", targets[1], "c_synth")

\* mutant: the except clause of synthesize_speech swallows the error
SynthesisFailureRaises_swallowed(p) == FALSE

\* synthesize_speech: `except ClientError as e: ... raise` /
\* `except Exception as e: ... raise`
SynthesisFailureRaises(p) == TRUE

\* Step 4: synthesize_speech with the voice of the dict, or 'Joanna', one
\* provider call per chunk of the translated text
process_file_synthesize ==
    /\ prog \in CliProgs /\ pc = "c_synth"
    /\ LET cs == RunSynthChunks[prog][result]
       IN  \E k \in 0..Len(cs) :
              /\ log' = log \o Calls("synthesize_speech", VoiceFor(prog, targets[1]),
                                     targets[1], Len(cs), k)
              /\ spoken' = IF k = 0 THEN cs ELSE SubSeq(cs, 1, k)
              /\ IF k = 0 \/ ~SynthesisFailureRaises(prog)
                 THEN pc' = "c_put_audio" /\ UNCHANGED <<err, ret>>
                 ELSE Fail(Exc("ClientError", <<"synthesize_speech">>))
    /\ UNCHANGED <<max_tries, polls, status, reason, store, sent, result>>
    /\ CFixed

process_file_put_audio ==
    /\ prog \in CliProgs /\ pc = "c_put_audio"
    /\ CliPut("audio_outputs", targets[1], "c_done")

\* process_file falls off its end (None); process_audio_file returns True
process_file_done ==
    /\ prog \in CliProgs /\ pc = "c_done"
    /\ Return(IF prog = "scripts" THEN [value |-> TRUE] ELSE [none |-> TRUE])
    /\ UNCHANGED <<max_tries, polls, status, reason, log, store>>
    /\ CFrame

CliNext ==
    \/ process_file_upload
    \/ transcribe_audio_start
    \/ transcribe_audio_loop
    \/ transcribe_audio_poll
    \/ transcribe_audio_sleep
    \/ transcribe_audio_download
    \/ transcribe_audio_finally
    \/ process_file_put_transcript
    \/ process_file_translate
    \/ process_file_put_translation
    \/ process_file_synthesize
    \/ process_file_put_audio
    \/ process_file_done

----------------------------------------------------------------------------
(* terraform/modules/lambda/code/lambda_function.py *)

LFixed == UNCHANGED <<prog, key, meta, meta_changes, doc, cancelled, env, targets, voices, idx, records,
                      tries0, max_tries>>
          /\ UNCHANGED <<limit, provider, result, spoken>>
          /\ UNCHANGED cvars
          /\ UNCHANGED main
LFrame == LFixed /\ UNCHANGED <<text, sent>>

\* key.startswith("audio_inputs/") and key.endswith(".mp3")
Eligible(k) == k.dir = "audio_inputs/" /\ k.ext = ".mp3"

\* `for record in event['Records']` with the `continue` of lines 19-20
lambda_function_loop ==
    /\ prog = "lambda_function" /\ pc = "l_loop"
    /\ IF ridx > Len(records)
       THEN pc' = "l_return" /\ UNCHANGED <<output_key, ridx, bound, status, reason>>
       ELSE IF ~Eligible(records[ridx])
            THEN pc' = "l_loop" /\ ridx' = ridx + 1 /\ UNCHANGED <<bound, status, reason>>
            ELSE /\ pc' = "l_start"
                 /\ bound' = TRUE
                 /\ status' = "NONE"
                 /\ reason' = <<>>
                 /\ UNCHANGED ridx
    /\ UNCHANGED <<output_key, polls, log, store, err, ret>>
    /\ LFrame

\* line 32: OutputKey=f"{environment}/transcripts/{filename}.json"
LambdaOutputKey(e) == <<e, "/", "transcripts", "/", Stem, ".json">>

\* lines 26-33
lambda_function_start ==
    /\ prog = "lambda_function" /\ pc = "l_start"
    /\ output_key' = LambdaOutputKey(env)
    /\ \E ok \in BOOLEAN :
          /\ Emit(Ev("start_transcription_job", "", "", ok))
          /\ IF ok THEN pc' = "l_poll" /\ UNCHANGED <<err, ret>>
                   ELSE Raise(Exc("ClientError", <<"start_transcription_job">>))
    /\ UNCHANGED <<ridx, bound, polls, status, reason, store>>
    /\ LFrame

\* lines 35-39: while True, break on a terminal status
LambdaPollNext(s) == IF s \in {"COMPLETED", "FAILED"} THEN "l_after_wait" ELSE "l_sleep"

lambda_function_poll ==
    /\ prog = "lambda_function" /\ pc = "l_poll"
    /\ CountPoll
    /\ \/ /\ Raise(Exc("ClientError", <<"get_transcription_job">>))
          /\ Emit(Ev("get_transcription_job", "", "", FALSE))
          /\ UNCHANGED <<status, reason>>
       \/ \E s \in Statuses, r \in ReasonOpts :
             /\ (s # "FAILED") => (r = <<>>)
             /\ status' = s
             /\ reason' = r
             /\ pc' = LambdaPollNext(s)
             /\ UNCHANGED <<err, ret, log>>
    /\ UNCHANGED <<output_key, ridx, bound, store>>
    /\ LFrame

\* line 40: time.sleep(5)
lambda_function_sleep ==
    /\ prog = "lambda_function" /\ pc = "l_sleep"
    /\ pc' = "l_poll"
    /\ UNCHANGED <<output_key, ridx, bound, polls, status, reason, log, store, err, ret>>
    /\ LFrame

\* lines 42-43: the FailureReason of the job is not read
LambdaFailure(r) == Exc("Exception", <<"Transcription job failed">>)

lambda_function_after_wait ==
    /\ prog = "lambda_function" /\ pc = "l_after_wait"
    /\ IF status = "FAILED"
       THEN Raise(LambdaFailure(reason))
       ELSE pc' = "l_get" /\ UNCHANGED <<err, ret>>
    /\ UNCHANGED <<output_key, ridx, bound, polls, status, reason, log, store>>
    /\ LFrame

\* one provider call of the record's pipeline, continuing at `next`
LambdaCall(e, next) ==
    /\ \E ok \in BOOLEAN :
          /\ Emit([e EXCEPT !.ok = ok])
          /\ IF ok THEN /\ pc' = next
                        /\ store' = IF e.op = "put_object"
                                     THEN store \cup {Art(env, e.kind, e.lang)}
                                     ELSE store
                        /\ UNCHANGED <<err, ret>>
                   ELSE Raise(Exc("ClientError", <<e.op>>)) /\ UNCHANGED store
    /\ UNCHANGED <<output_key, bound, polls, status, reason>>
    /\ LFixed

\* lines 45-49: s3.get_object of the job's JSON output, its body decoded as
\* is into transcript_text
lambda_function_get ==
    /\ prog = "lambda_function" /\ pc = "l_get"
    /\ LambdaCall(Ev("get_object", "transcripts", "", TRUE), "l_translate")
    /\ text' = IF pc' = "l_translate" THEN Body(doc) ELSE text
    /\ UNCHANGED <<ridx, sent>>

\* lines 52-57: translate_text(Text=transcript_text)
lambda_function_translate ==
    /\ prog = "lambda_function" /\ pc = "l_translate"
    /\ LambdaCall(Ev("translate_text", "", targets[1], TRUE), "l_put_translation")
    /\ sent' = Append(sent, text)
    /\ UNCHANGED <<ridx, text>>

\* lines 60-64
lambda_function_put_translation ==
    /\ prog = "lambda_function" /\ pc = "l_put_translation"
    /\ LambdaCall(Ev("put_object", "translations", targets[1], TRUE), "l_synth")
    /\ UNCHANGED <<ridx, text, sent>>

\* lines 67-72: VoiceId='Joanna' whatever the language
lambda_function_synthesize ==
    /\ prog = "lambda_function" /\ pc = "l_synth"
    /\ LambdaCall(Ev("synthesize_speech", "Joanna", targets[1], TRUE), "l_put_audio")
    /\ UNCHANGED <<ridx, text, sent>>

\* lines 75-79, then the next record
lambda_function_put_audio ==
    /\ prog = "lambda_function" /\ pc = "l_put_audio"
    /\ LambdaCall(Ev("put_object", "audio_outputs", targets[1], TRUE), "l_loop")
    /\ ridx' = IF pc' = "l_loop" THEN ridx + 1 ELSE ridx
    /\ UNCHANGED <<text, sent>>

\* lines 81-84: the body reads `filename`, assigned only for an eligible record
lambda_function_return ==
    /\ prog = "lambda_function" /\ pc = "l_return"
    /\ IF bound
       THEN Return([statusCode |-> 200, body |-> [text |-> "Processed file"]])
       ELSE Raise(Exc("UnboundLocalError", <<"filename">>))
    /\ UNCHANGED <<output_key, ridx, bound, polls, status, reason, log, store>>
    /\ LFrame

LambdaNext ==
    \/ lambda_function_loop
    \/ lambda_function_start
    \/ lambda_function_poll
    \/ lambda_function_sleep
    \/ lambda_function_after_wait
    \/ lambda_function_get
    \/ lambda_function_translate
    \/ lambda_function_put_translation
    \/ lambda_function_synthesize
    \/ lambda_function_put_audio
    \/ lambda_function_return

----------------------------------------------------------------------------
(* One run of one entry point *)

\* the poll caps explored: 0..MaxTries and the source's own 60
TriesChoices == (0..MaxTries) \cup {DefaultMaxTries}

Init ==
    /\ prog \in Progs
    /\ pc = CASE prog = "handler" -> "h_entry"
              [] prog = "lambda_function" -> "l_loop"
              [] OTHER -> "c_upload"
    /\ key \in CASE prog = "handler" -> HandlerKeys
                 [] prog \in CliProgs -> {InputFile}
                 [] OTHER -> {NoKey}
    /\ meta \in IF prog = "handler" THEN MetaOpts ELSE {<<>>}
    /\ meta_changes = 0
    /\ output_key = <<>>
    /\ doc \in {Document(t) : t \in IF prog \in CliProgs THEN RunTexts ELSE {<<"a">>}}
                \cup {Malformed}
    /\ cancelled = FALSE
    /\ env \in CASE prog = "handler" -> {""}
                 [] prog = "process_a" -> {""}
                 [] OTHER -> Envs
    /\ targets \in IF prog = "handler"
                    THEN SeqsUpTo(HandlerLangs, MaxTargets) \ {<<>>}
                    ELSE {<<l>> : l \in Langs}
    /\ voices \in IF prog = "handler" THEN SUBSET {"es", "fr"} ELSE {{}}
    /\ idx = 0
    /\ records \in IF prog = "lambda_function"
                    THEN SeqsUpTo(RecordKeys, MaxRecords) ELSE {<<>>}
    /\ ridx = 1
    /\ bound = FALSE
    /\ tries0 \in IF HasPollCap(prog) THEN TriesChoices ELSE {0}
    /\ max_tries = 0
    /\ polls = 0
    /\ status = "NONE"
    /\ reason = <<>>
    /\ log = <<>>
    /\ store = {}
    /\ err = NoErr
    /\ ret = <<>>
    /\ text = <<>>
    /\ limit = IF prog \in CliProgs THEN RunLimit ELSE 0
    /\ provider = "echo"
    /\ sent = <<>>
    /\ result = <<>>
    /\ spoken = <<>>
    /\ runs = <<>> /\ jobs = <<>> /\ files = <<>> /\ uploads = {}
    /\ main = NoMain

\* the steps of the program
Run ==
    \/ HandlerNext
    \/ CliNext
    \/ LambdaNext

Next ==
    \/ Run
    \/ metadata_change

Spec == Init /\ [][Next]_vars

\* the run is scheduled until it returns or raises
FairSpec == Spec /\ WF_vars(Next)

\* one run during which cancellation may be requested
CancelNext ==
    \/ Next
    \/ cancel_signal

CancelSpec == Init /\ [][CancelNext]_vars

Finished == pc \in {"returned", "raised"}

----------------------------------------------------------------------------
(* Two runs of one entry point executing at the same time: two processes of *)
(* a command-line program on one machine, or two invocations of the handler *)

RunIds == {1, 2}
\* int(time.time()): the clock in whole seconds
Clock == {1, 2}
\* the filename stems of the two assets
PairStems == {"a", "b"}
PairProgs == {"handler"} \cup CliProgs

\* process_file: job_name = f"transcribe-{filename}-{timestamp}";
\* handler line 88: f"{env}-{base_filename}-{uuid.uuid4().hex[:8]}", a value
\* of its own for each run
JobName(p, r, stem, stamp) ==
    IF p = "handler"
    THEN [prefix |-> ENV_PREFIX, stem |-> stem, suffix |-> r]
    ELSE [prefix |-> "transcribe", stem |-> stem, suffix |-> stamp]
NoJob == [prefix |-> "", stem |-> "", suffix |-> 0]

\* the local paths of process_file: f"/tmp/{filename}_transcript.txt",
\* f"/tmp/{filename}_{lang}_translation.txt", f"/tmp/{filename}_{lang}.mp3";
\* both runs have the same target language
TempPath(stem, kind) == [dir |-> "/tmp/", stem |-> stem, kind |-> kind]

\* a transcript, translation or audio made from the asset of run r
Content(r, kind) == [of |-> r, kind |-> kind]
NoContent == Content(0, "")

\* the position after an artifact is in memory: the handler uploads it from
\* memory, process_file writes it to its local path first
AfterProduced(p) == IF p = "handler" THEN "put" ELSE "write"

Without(f, x) == [y \in DOMAIN f \ {x} |-> f[y]]

\* the steps of the two runs change nothing else
PFrame == UNCHANGED pvars /\ UNCHANGED tvars /\ UNCHANGED main

\* start_transcription_job: the provider rejects a name that is in use; the
\* finally clause of transcribe_audio then deletes the job of that name
concurrent_start(r) ==
    /\ runs[r].pc = "start"
    /\ \E stamp \in Clock :
          LET name == JobName(prog, r, runs[r].stem, stamp)
          IN  IF name \in DOMAIN jobs
              THEN /\ jobs' = IF HasCleanup(prog) THEN Without(jobs, name) ELSE jobs
                   /\ runs' = [runs EXCEPT ![r].pc = "failed", ![r].job = name]
              ELSE /\ jobs' = (name :> r) @@ jobs
                   /\ runs' = [runs EXCEPT ![r].pc = "fetch", ![r].job = name]
    /\ UNCHANGED <<files, uploads>>
    /\ PFrame

\* the wait for the job and the download of its transcript, by job name
concurrent_fetch(r) ==
    /\ runs[r].pc = "fetch"
    /\ IF runs[r].job \notin DOMAIN jobs
       THEN runs' = [runs EXCEPT ![r].pc = "failed"]
       ELSE runs' = [runs EXCEPT ![r].pc = AfterProduced(prog),
                                 ![r].kind = "transcripts",
                                 ![r].mem = Content(jobs[runs[r].job], "transcripts")]
    /\ jobs' = IF HasCleanup(prog) THEN Without(jobs, runs[r].job) ELSE jobs
    /\ UNCHANGED <<files, uploads>>
    /\ PFrame

\* with open(path, 'w') as f: f.write(...)
concurrent_write(r) ==
    /\ runs[r].pc = "write"
    /\ files' = (TempPath(runs[r].stem, runs[r].kind) :> runs[r].mem) @@ files
    /\ runs' = [runs EXCEPT ![r].pc = "put"]
    /\ UNCHANGED <<jobs, uploads>>
    /\ PFrame

\* upload_to_s3(path, key) reads the file at path; upload_text and put_object
\* of the handler send the value held in memory
concurrent_put(r) ==
    /\ runs[r].pc = "put"
    /\ LET body == IF prog = "handler" THEN runs[r].mem
                   ELSE files[TempPath(runs[r].stem, runs[r].kind)]
       IN  uploads' = uploads \cup {[run |-> r, kind |-> runs[r].kind, body |-> body]}
    /\ runs' = [runs EXCEPT ![r].pc = IF runs[r].kind = "audio_outputs"
                                      THEN "done" ELSE "produce"]
    /\ UNCHANGED <<jobs, files>>
    /\ PFrame

\* translate_text on the transcript held in memory
concurrent_translate(r) ==
    /\ runs[r].pc = "produce" /\ runs[r].kind = "transcripts"
    /\ runs' = [runs EXCEPT ![r].pc = AfterProduced(prog),
                            ![r].kind = "translations",
                            ![r].mem = Content(runs[r].mem.of, "translations")]
    /\ UNCHANGED <<jobs, files, uploads>>
    /\ PFrame

\* synthesize_speech on the translation held in memory; AudioProcessor's
\* and process_audio_file's write the audio to the local output path
concurrent_synthesize(r) ==
    /\ runs[r].pc = "produce" /\ runs[r].kind = "translations"
    /\ LET audio == Content(runs[r].mem.of, "audio_outputs")
       IN  /\ runs' = [runs EXCEPT ![r].pc = "put",
                                   ![r].kind = "audio_outputs",
                                   ![r].mem = audio]
           /\ files' = IF prog = "handler" THEN files
                       ELSE (TempPath(runs[r].stem, "audio_outputs") :> audio) @@ files
    /\ UNCHANGED <<jobs, uploads>>
    /\ PFrame

PairInit ==
    /\ prog \in PairProgs
    /\ \E s \in PairStems :
          runs = [r \in RunIds |-> [pc |-> "start", stem |-> IF r = 1 THEN "a" ELSE s,
                                    job |-> NoJob, kind |-> "", mem |-> NoContent]]
    /\ jobs = <<>> /\ files = <<>> /\ uploads = {}
    /\ main = NoMain
    /\ pc = "concurrent"
    /\ text = <<>> /\ limit = 0 /\ provider = "echo"
    /\ sent = <<>> /\ result = <<>> /\ spoken = <<>>
    /\ key = NoKey /\ meta = <<>> /\ meta_changes = 0 /\ output_key = <<>>
    /\ doc = Malformed /\ cancelled = FALSE
    /\ env = "" /\ targets = <<"es">> /\ voices = {} /\ idx = 0
    /\ records = <<>> /\ ridx = 1 /\ bound = FALSE /\ tries0 = 0 /\ max_tries = 0
    /\ polls = 0 /\ status = "NONE" /\ reason = <<>> /\ log = <<>> /\ store = {}
    /\ err = NoErr /\ ret = <<>>

PairNext ==
    \/ \E r \in RunIds : concurrent_start(r)
    \/ \E r \in RunIds : concurrent_fetch(r)
    \/ \E r \in RunIds : concurrent_write(r)
    \/ \E r \in RunIds : concurrent_put(r)
    \/ \E r \in RunIds : concurrent_translate(r)
    \/ \E r \in RunIds : concurrent_synthesize(r)

\* two runs, their steps interleaved in any order
PairSpec == PairInit /\ [][PairNext]_vars

----------------------------------------------------------------------------
(* Vocabulary of the properties *)

\* the events of the log that satisfy Test, in order
Events(Test(_)) == SelectSeq(log, Test)
IsTranslate(e) == e.op = "translate_text"
IsSynth(e) == e.op = "synthesize_speech"
IsWrite(e) == e.op \in {"put_object", "upload_file"}
IsArtifactWrite(e) == IsWrite(e) /\ e.kind \in {"transcripts", "translations", "audio_outputs"}
IsLanguageCall(e) == \/ IsTranslate(e)
                     \/ IsSynth(e)
                     \/ IsWrite(e) /\ e.kind \in {"translations", "audio_outputs"}
\* the languages of the translate_text calls, in call order
TranslatedLangs == [i \in DOMAIN Events(IsTranslate) |-> Events(IsTranslate)[i].lang]

PollPcs == {"h_poll", "c_poll", "l_poll"}
WaitPcs == PollPcs \cup {"h_sleep", "c_sleep", "l_sleep", "c_loop"}
\* positions that are reached only with a transcript in hand
AfterTranscriptPcs ==
    {"h_download", "h_put_transcript", "h_translate", "h_put_translation", "h_voice",
     "h_synth", "h_put_audio", "h_next", "h_return",
     "c_download", "c_put_transcript", "c_translate", "c_put_translation", "c_synth",
     "c_put_audio", "c_done",
     "l_get", "l_translate", "l_put_translation", "l_synth", "l_put_audio"}

\* the handler ran its loop to the end and returned its success response
HandlerProcessed ==
    prog = "handler" /\ pc = "returned" /\ ret = <<[statusCode |-> 200,
        body |-> [text |-> "Processed file", key |-> key, env |-> env]]>>

----------------------------------------------------------------------------
(* C1: in handler.lambda_handler a failure of the translation call, the     *)
(* synthesis call or an artifact write of one target language is not        *)
(* propagated, and every later target language is still translated.         *)
C1_PerLanguageFailureIsolated ==
    (/\ prog = "handler"
     /\ Finished
     /\ \E i \in DOMAIN log : IsLanguageCall(log[i]) /\ ~log[i].ok)
        => (pc = "returned" /\ Len(TranslatedLangs) = Len(targets))

WaitEndedWithoutTranscript ==
    \/ status = "FAILED"
    \/ err = Exc("Exception", <<"Transcription job timed out">>)
    \/ \E i \in DOMAIN log :
          log[i].op \in {"get_transcription_job", "get_transcript"} /\ ~log[i].ok

(* C2: when the transcription job ends FAILED, or the wait ends without a   *)
(* transcript, the run aborts with a fatal outcome and no target language   *)
(* is attempted: no translation call, no synthesis call and no transcript,  *)
(* translation or audio write (handler.lambda_handler and                   *)
(* AudioProcessor.process_file).                                            *)
C2_TranscriptFailureIsFatal ==
    (prog \in {"handler", "process_a", "process_audio"} /\ WaitEndedWithoutTranscript)
        => /\ pc \in {"h_after_wait", "c_finally", "raised"}
           /\ \A i \in DOMAIN log :
                 ~IsTranslate(log[i]) /\ ~IsSynth(log[i]) /\ ~IsArtifactWrite(log[i])
           /\ \A a \in store : a.kind = "audio_inputs"

C2_Witness ==
    /\ prog = "handler" /\ pc = "raised" /\ status = "FAILED" /\ polls >= 2
    /\ Len(targets) = 2

(* C3: waiting for a transcription job always terminates, in every wait     *)
(* loop of the repository: a run that is polling eventually leaves the wait *)
(* even if every poll reports a non-terminal status.                        *)
C3_WaitAlwaysEnds == (pc \in PollPcs) ~> (pc \notin WaitPcs)

WaitOver == pc \in {"c_finally", "raised"} \cup AfterTranscriptPcs
JobStarted == \E i \in DOMAIN log : log[i].op = "start_transcription_job" /\ log[i].ok
PollRaised == \E i \in DOMAIN log : log[i].op = "get_transcription_job" /\ ~log[i].ok

(* C4: AudioProcessor.transcribe_audio with poll cap N issues at most N     *)
(* get_transcription_job calls; if N polls all reported a non-terminal      *)
(* status the outcome is the timed-out error, a value different from every  *)
(* FAILED error; with N = 0 no poll is issued and the outcome is timed-out. *)
C4_PollCapRespected ==
    (prog \in {"process_a", "process_audio"})
        => /\ polls <= tries0
           /\ (/\ JobStarted /\ WaitOver /\ ~PollRaised
               /\ polls = tries0 /\ status \notin Terminal)
                 => (err = TimedOut /\ pc \in {"c_finally", "raised"})
           /\ (tries0 = 0) => (polls = 0 /\ status = "NONE")
           /\ \A r \in ReasonOpts : TimedOut # CliFailure(r)

C4_Witness ==
    /\ prog = "process_a" /\ pc = "raised" /\ tries0 = DefaultMaxTries
    /\ polls = DefaultMaxTries /\ err = TimedOut

(* C5: terminal job states are sticky: once a poll has observed COMPLETED   *)
(* or FAILED the wait issues no further poll, and the run's outcome follows *)
(* that status: a FAILED job is never treated as COMPLETED nor the reverse. *)
C5_TerminalSticky ==
    /\ (status \in Terminal) => (pc \notin WaitPcs)
    /\ (status = "FAILED") => (pc \in {"h_after_wait", "l_after_wait", "c_finally",
                                        "raised", "returned"})
    /\ (status = "FAILED" /\ pc = "returned") => (prog = "scripts" /\ ret = <<[value |-> FALSE]>>)
    /\ (pc \in AfterTranscriptPcs) => (status = "COMPLETED")

C5_Witness ==
    /\ prog = "scripts" /\ status = "FAILED" /\ pc = "returned" /\ polls >= 2

CarriedReason(e) == IF Len(e.msg) >= 2 THEN <<e.msg[2]>> ELSE <<>>

(* C6: when the job reports FAILED the failure surfaced to the caller       *)
(* carries the provider's failure reason verbatim, for every reason the     *)
(* provider can supply, an absent one included.                             *)
C6_FailureReasonVerbatim ==
    (status = "FAILED" /\ pc \in {"raised", "c_finally"})
        => (CarriedReason(err) = reason)

LoopPassed(i) == \/ idx > i
                 \/ idx = i /\ pc \in {"h_next"}
                 \/ HandlerProcessed

(* C7: in handler.lambda_handler a target language without an entry in the  *)
(* voice mapping still gets its translation and its translation artifact,   *)
(* gets no synthesis call and no audio artifact, the skip is not an error,  *)
(* and the languages are processed in the requested order.                  *)
C7_NoVoiceSkipsOnlyAudio ==
    (prog = "handler")
        => /\ \A i \in DOMAIN log :
                 (IsSynth(log[i]) \/ (IsWrite(log[i]) /\ log[i].kind = "audio_outputs"))
                     => (log[i].lang \in voices)
           /\ \A a \in store : (a.kind = "audio_outputs") => (a.lang \in voices)
           /\ \A i \in DOMAIN targets :
                 (targets[i] \notin voices /\ LoopPassed(i))
                     => /\ Art(env, "translations", targets[i]) \in store
                        /\ Len(TranslatedLangs) >= i
                        /\ Events(IsTranslate)[i].ok
                        /\ (idx = i) => (err = NoErr)
           /\ TranslatedLangs = SubSeq(targets, 1, Len(TranslatedLangs))
           /\ (pc = "h_translate") => (Len(TranslatedLangs) = idx - 1)
           /\ HandlerProcessed => (Len(TranslatedLangs) = Len(targets))

C7_Witness ==
    /\ HandlerProcessed
    /\ targets = <<"es", "fr">> /\ voices = {"es"}
    /\ store = {Art(env, "transcripts", ""), Art(env, "translations", "es"),
                Art(env, "audio_outputs", "es"), Art(env, "translations", "fr")}

(* C8: the synthesis stage of process_a.py, process_audio.py and            *)
(* scripts/process_audio.py never calls the speech provider for a target    *)
(* language without an entry in the language-to-voice mapping.              *)
C8_NoSynthesisWithoutVoice ==
    (prog \in CliProgs)
        => \A i \in DOMAIN log : IsSynth(log[i]) => (log[i].lang \in VoiceMapped(prog))

\* the sentence units of a text as the limit rule understands them: cut after
\* ". ", "? " and "! " only ("#" is not a character of any text)
Units(t) ==
    Split(Replace(Replace(Replace(t, <<".", " ">>, <<".", "#">>),
                          <<"?", " ">>, <<"?", "#">>),
                  <<"!", " ">>, <<"!", "#">>),
          "#")

\* the chunk is one sentence unit, itself longer than the limit (a unit is
\* taken with or without its outer whitespace, and also as the code cuts it)
IsOversizedUnit(chunk) ==
    \E u \in Range(Units(text)) \cup Range(Sentences(text)) :
        /\ ByteLen(u) > limit
        /\ chunk \in {u, Strip(u)}

(* C9: every chunk translate_text sends to the provider has an encoded      *)
(* (UTF-8) byte length of at most the limit, except a chunk that is exactly *)
(* one sentence unit which is itself longer than the limit.                 *)
C9_ChunkBytesWithinLimit ==
    (pc = "t_done")
        => \A i \in DOMAIN sent : ByteLen(sent[i]) <= limit \/ IsOversizedUnit(sent[i])

\* the chunks joined with either nothing or one space at each chunk boundary
RECURSIVE Joins(_)
Joins(cs) ==
    IF cs = <<>> THEN {<<>>}
    ELSE IF Len(cs) = 1 THEN {cs[1]}
         ELSE {cs[1] \o sep \o rest : sep \in {<<>>, <<" ">>}, rest \in Joins(Tail(cs))}

(* C10: round trip: when the provider returns each chunk unchanged, the     *)
(* text returned by translate_text is the input text up to the single space *)
(* injected between chunks: nothing of the text is dropped, duplicated or   *)
(* reordered, spaces after punctuation and outer whitespace included.       *)
C10_RoundTrip ==
    (pc = "t_done" /\ provider = "echo")
        => (result = Join(sent, <<" ">>) /\ text \in Joins(sent))

(* C11: splitting the empty text yields zero chunks for any limit L > 0:    *)
(* translate_text and synthesize_speech called with an empty text make no   *)
(* provider call at all.                                                    *)
C11_EmptyTextNoCall ==
    (text = <<>>) => (sent = <<>> /\ spoken = <<>>)

\* the texts made of a run of consecutive units: the units i..j joined with
\* nothing or with one space, with or without the outer whitespace
Runs(U) ==
    UNION {{Join(SubSeq(U, i, j), <<>>), Join(SubSeq(U, i, j), <<" ">>),
            Strip(Join(SubSeq(U, i, j), <<>>)), Strip(Join(SubSeq(U, i, j), <<" ">>))} :
              i \in DOMAIN U, j \in DOMAIN U}

(* C12: with chunk limit 15, translating "Hello. How are you? Fine!" sends  *)
(* exactly the chunks "Hello.", "How are you?", "Fine!" in that order, and  *)
(* with the answers "Hola.", "Como estas?", "Bien!" the returned text is    *)
(* "Hola. Como estas? Bien!"; in general each chunk sent is a run of whole  *)
(* consecutive sentence units that keep their closing punctuation (an empty *)
(* chunk is let through here).                                              *)
C12_ChunksAreWholeSentences ==
    (pc = "t_done")
        => /\ (text = Hello /\ limit = 15 /\ provider = "es")
                => /\ sent = <<SubSeq(Hello, 1, 6), SubSeq(Hello, 8, 19), SubSeq(Hello, 21, 25)>>
                   /\ result = Hola \o <<" ">> \o ComoEstas \o <<" ">> \o Bien
           /\ \A k \in DOMAIN sent : sent[k] \in Runs(Units(text)) \cup {<<>>}

(* C13: for every non-empty text whose encoded byte length is at most the   *)
(* chunk limit, the limit itself included, translate_text issues exactly    *)
(* one translation call, whose input is the whole text.                     *)
C13_FittingTextOneCall ==
    (pc = "t_done" /\ text # <<>> /\ ByteLen(text) <= limit)
        => (sent = <<text>>)

\* a translation call of the run raised
TranslateFailed == \E i \in DOMAIN log : IsTranslate(log[i]) /\ ~log[i].ok

(* C14: if the translation call for any chunk k of a text fails,            *)
(* translate_text as a whole fails with that provider error: no later chunk *)
(* is sent, no translated text is returned (not the translations of the     *)
(* chunks before k), and the caller writes no translation artifact and      *)
(* makes no synthesis call for that language (process_file of both          *)
(* AudioProcessor classes and process_audio_file).                          *)
C14_ChunkFailureFailsTranslation ==
    (prog \in CliProgs /\ TranslateFailed)
        => /\ result = <<>>
           /\ ~Events(IsTranslate)[Len(Events(IsTranslate))].ok
           /\ IF prog = "scripts"
              THEN pc = "returned" /\ ret = <<[value |-> FALSE]>>
              ELSE pc = "raised" /\ err = Exc("ClientError", <<"translate_text">>)
           /\ \A i \in DOMAIN log :
                 /\ ~IsSynth(log[i])
                 /\ ~(IsWrite(log[i]) /\ log[i].kind \in {"translations", "audio_outputs"})
           /\ \A a \in store : a.kind \in {"audio_inputs", "transcripts"}

C14_Witness ==
    /\ prog = "process_a" /\ pc = "raised"
    /\ Len(Events(IsTranslate)) = 2
    /\ Events(IsTranslate)[1].ok /\ ~Events(IsTranslate)[2].ok
    /\ Len(sent) = 2

\* some chunk is exactly the unit u (with or without its outer whitespace)
Own(cs, u) == \E k \in DOMAIN cs : cs[k] \in {u, Strip(u)}

\* every unit of U that the function measures as longer than the limit is a
\* chunk of its own in cs
OversizedAlone(U, cs, p) ==
    \A i \in DOMAIN U : (Size(p, U[i]) > limit) => Own(cs, U[i])

(* C15: a sentence unit (in scripts/process_audio.py synthesize_speech: a   *)
(* word) longer than the size limit, in the measure the function uses, is   *)
(* sent to the provider whole, as one chunk that contains exactly that      *)
(* unit: it is never truncated, dropped or merged with a neighbour.         *)
C15_OversizedUnitSentWhole ==
    /\ (pc = "t_done") => OversizedAlone(Units(text), sent, prog)
    /\ (pc = "s_done" /\ prog # "scripts") => OversizedAlone(Units(text), spoken, prog)
    /\ (pc = "s_done" /\ prog = "scripts") => OversizedAlone(Words(text), spoken, "process_a")

\* the number of translation calls among the first j calls of the log: in
\* the handler, the position in TARGET_LANGUAGES of the language call j is for
NthLang(j) == Cardinality({i \in 1..j : IsTranslate(log[i])})

\* the transcript artifact was written before call j
TranscriptWrittenBefore(j) ==
    \E i \in 1..(j - 1) : IsWrite(log[i]) /\ log[i].kind = "transcripts" /\ log[i].ok

(* C16: ordering within one run (handler.lambda_handler, process_file,      *)
(* process_audio_file): the job is COMPLETED and the transcript artifact is *)
(* written before the first translation call; for each target language the  *)
(* translation call has returned before the synthesis call starts; all      *)
(* calls and writes of target language i come before any call of target     *)
(* language i+1, in the order of the requested languages.                   *)
C16_StageOrdering ==
    (prog \in {"handler"} \cup CliProgs)
        => \A j \in DOMAIN log :
              IsLanguageCall(log[j])
                  => /\ status = "COMPLETED"
                     /\ TranscriptWrittenBefore(j)
                     /\ NthLang(j) >= 1
                     /\ IsSynth(log[j])
                           => \A i \in DOMAIN log :
                                 (IsTranslate(log[i]) /\ log[i].lang = log[j].lang
                                  /\ (prog = "handler" => NthLang(i) = NthLang(j)))
                                     => (i < j /\ log[i].ok)
                     /\ (prog = "handler")
                           => /\ NthLang(j) \in DOMAIN targets
                              /\ log[j].lang = targets[NthLang(j)]
                              /\ log[j - 1].ok
                              /\ ~IsTranslate(log[j]) => IsLanguageCall(log[j - 1])
                     /\ (prog \in CliProgs) => (log[j].lang = targets[1])

C16_Witness ==
    /\ HandlerProcessed
    /\ targets = <<"es", "fr">> /\ voices = {"es", "fr"}
    /\ Len(Events(IsLanguageCall)) = 8

IsAudioWrite(e) == IsWrite(e) /\ e.kind = "audio_outputs"
IsTranslationWrite(e) == IsWrite(e) /\ e.kind = "translations"

(* C17: artifact persistence per language (handler.lambda_handler and       *)
(* AudioProcessor.process_file): the write of the translation artifact      *)
(* directly follows the successful translation and is in the store whenever *)
(* synthesis for that language is called, fails or is skipped; an audio     *)
(* artifact is written only directly after a synthesis call for that        *)
(* language that returned successfully, never after a failed or skipped     *)
(* synthesis.                                                               *)
C17_ArtifactPersistence ==
    (prog \in {"handler", "process_a", "process_audio"})
        => /\ \A j \in DOMAIN log :
                 /\ (IsTranslate(log[j]) /\ log[j].ok /\ j < Len(log))
                       => \/ IsTranslationWrite(log[j + 1]) /\ log[j + 1].lang = log[j].lang
                          \/ prog # "handler" /\ IsTranslate(log[j + 1])
                 /\ (IsTranslationWrite(log[j]) /\ log[j].ok)
                       => Art(env, "translations", log[j].lang) \in store
                 /\ IsSynth(log[j]) => Art(env, "translations", log[j].lang) \in store
                 /\ (IsSynth(log[j]) /\ ~log[j].ok) => (j = Len(log))
                 /\ IsAudioWrite(log[j])
                       => /\ IsSynth(log[j - 1]) /\ log[j - 1].ok
                          /\ log[j - 1].lang = log[j].lang
                          /\ (prog = "handler") => (log[j].lang \in voices)
           /\ \A a \in store :
                 (a.kind = "audio_outputs")
                     => \E j \in DOMAIN log :
                           /\ IsSynth(log[j]) /\ log[j].ok /\ log[j].lang = a.lang
                           /\ j < Len(log) /\ IsAudioWrite(log[j + 1]) /\ log[j + 1].ok
           /\ \A i \in DOMAIN targets :
                 (prog = "handler" /\ targets[i] \notin voices /\ LoopPassed(i))
                     => Art(env, "translations", targets[i]) \in store

C17_Witness ==
    /\ prog = "handler" /\ pc = "raised"
    /\ targets = <<"es", "fr">> /\ voices = {"es", "fr"}
    /\ IsSynth(log[Len(log)]) /\ ~log[Len(log)].ok /\ log[Len(log)].lang = "es"
    /\ store = {Art(env, "transcripts", ""), Art(env, "translations", "es")}

\* target language i of the handler has its translation and its audio stored
FullSuccess(i) ==
    /\ Art(env, "translations", targets[i]) \in store
    /\ Art(env, "audio_outputs", targets[i]) \in store

LanguageCallFailed == \E j \in DOMAIN log : IsLanguageCall(log[j]) /\ ~log[j].ok

(* C18: the outcome handler.lambda_handler reports distinguishes full       *)
(* success, partial success, no language succeeded and transcription        *)
(* failed: its success response is returned only when every requested       *)
(* language has both its translation and its audio, and a run in which a    *)
(* language failed after the transcript was obtained still returns an       *)
(* outcome (partial or no-language success), different from the success     *)
(* response, instead of failing like a transcription failure.               *)
C18_OutcomeDistinguishesCases ==
    (prog = "handler")
        => /\ HandlerProcessed => \A i \in DOMAIN targets : FullSuccess(i)
           /\ (Finished /\ LanguageCallFailed) => (pc = "returned" /\ ~HandlerProcessed)

\* the key layout {env}/transcripts/{stem}.txt, {env}/translations/{stem}_{lang}.txt,
\* {env}/audio_outputs/{stem}_{lang}.mp3
LayoutKey(e, kind, stem, lang) ==
    <<e, "/", kind, "/", stem>>
        \o (IF kind = "transcripts" THEN <<>> ELSE <<"_", lang>>)
        \o (IF kind = "audio_outputs" THEN <<".mp3">> ELSE <<".txt">>)

(* C19: every transcript, translation and audio artifact a run writes has a *)
(* key of exactly the form {env}/transcripts/{stem}.txt,                    *)
(* {env}/translations/{stem}_{lang}.txt or                                  *)
(* {env}/audio_outputs/{stem}_{lang}.mp3, with env the run's environment    *)
(* tag, stem the filename stem of the asset and lang the target language    *)
(* (handler.lambda_handler, process_audio_file, and process_file of         *)
(* process_a.py and process_audio.py).                                      *)
C19_OutputKeyLayout ==
    (prog \in {"handler"} \cup CliProgs)
        => \A a \in store :
              (a.kind \in {"transcripts", "translations", "audio_outputs"})
                  => /\ a.key = LayoutKey(env, a.kind, key.name, a.lang)
                     /\ (a.kind # "transcripts") => (a.lang \in Range(targets))

IsHead(e) == e.op = "head_object"

(* C20: within one run of handler.lambda_handler the environment tag is     *)
(* resolved exactly once (one head_object call, before the job is started)  *)
(* and the transcription output location, the transcript, every translation *)
(* and every audio file are written under that same tag, even if the source *)
(* object's metadata changes while the run is in progress.                  *)
C20_OneEnvironmentTagPerRun ==
    (prog = "handler")
        => /\ Len(Events(IsHead)) <= 1
           /\ (env # "") <=> (Len(Events(IsHead)) = 1)
           /\ \A j \in DOMAIN log : IsHead(log[j]) => (j = 1)
           /\ (output_key # <<>>) => (env # "" /\ output_key[1] = env)
           /\ \A a \in store : env # "" /\ a.env = env /\ a.key[1] = env

C20_Witness ==
    /\ HandlerProcessed
    /\ env = "stage" /\ meta # <<"stage">>
    /\ output_key[1] = "stage"
    /\ targets = <<"es", "fr">>
    /\ Cardinality(store) = 5

\* key.startswith("audio_inputs/beta-") on the parts of a key
StartsWithBeta(k) == k.dir = "audio_inputs/" /\ k.name = "beta-a"

\* the tag the precedence rule gives for a metadata read that succeeded or
\* not on an object carrying the 'env' entry m
TagByPrecedence(read_ok, m, k) ==
    CASE read_ok /\ m \notin {<<>>, <<"">>} -> m[1]
      [] OTHER -> IF StartsWithBeta(k) THEN "beta" ELSE ENV_PREFIX

SkippedNonMp3 == [statusCode |-> 200, body |-> [text |-> "Skipped non-mp3"]]

(* C22: for every event whose object key does not end in ".mp3" (compared   *)
(* case-insensitively), handler.lambda_handler returns statusCode 200 with  *)
(* body "Skipped non-mp3" and performs no external operation: no metadata   *)
(* read, no transcription job, no translation, no synthesis and no write to *)
(* the output store.                                                        *)
C22_NonMp3Skipped ==
    (prog = "handler" /\ key.ext \notin {".mp3", ".MP3"})
        => /\ pc \in {"h_entry", "returned"}
           /\ (pc = "returned") => (ret = <<SkippedNonMp3>>)
           /\ log = <<>>
           /\ store = {}
           /\ output_key = <<>>
           /\ env = ""
           /\ polls = 0 /\ status = "NONE"

C22_Witness ==
    /\ prog = "handler" /\ key = Key("audio_inputs/", "beta-a", ".txt")
    /\ pc = "returned" /\ ret = <<SkippedNonMp3>>
    /\ log = <<>>

\* call j is a failed write of a translation or audio artifact
IsFailedLanguageWrite(j) ==
    IsWrite(log[j]) /\ log[j].kind \in {"translations", "audio_outputs"} /\ ~log[j].ok

\* target language i was translated, synthesized when it has a voice, and
\* its artifacts are in the store
Persisted(i) ==
    /\ Art(env, "translations", targets[i]) \in store
    /\ (targets[i] \in voices) => (Art(env, "audio_outputs", targets[i]) \in store)

(* C23: in handler.lambda_handler a storage failure while writing the       *)
(* translation or audio artifact of one target language fails only that     *)
(* language: the artifacts of sibling languages written earlier stay        *)
(* written, and every later target language is still translated,            *)
(* synthesized and persisted when its own calls succeed.                    *)
C23_StorageFailureIsolated ==
    (prog = "handler" /\ Finished)
        => \A j \in DOMAIN log :
              IsFailedLanguageWrite(j)
                  => /\ \A i \in 1..(NthLang(j) - 1) :
                           Art(env, "translations", targets[i]) \in store
                     /\ \A i \in (NthLang(j) + 1)..Len(targets) :
                           \/ Persisted(i)
                           \/ \E k \in (j + 1)..Len(log) : NthLang(k) = i /\ ~log[k].ok

IsStart(e) == e.op = "start_transcription_job"
IsPoll(e) == e.op = "get_transcription_job"
StartRejected == \E j \in DOMAIN log : IsStart(log[j]) /\ ~log[j].ok

(* C24: job submission is attempted exactly once per run and never retried  *)
(* (handler.lambda_handler and the transcribe_audio variants): if           *)
(* start_transcription_job is rejected, the error is surfaced to the caller *)
(* immediately, no status poll is issued for that job, and no transcript,   *)
(* translation or audio artifact is written in that run.                    *)
C24_SubmissionOnceNoRetry ==
    (prog \in {"handler"} \cup CliProgs)
        => /\ Len(Events(IsStart)) <= 1
           /\ (pc \in AfterTranscriptPcs \cup WaitPcs) => (Len(Events(IsStart)) = 1)
           /\ StartRejected
                 => /\ IsStart(log[Len(log)]) \/ log[Len(log)].op = "delete_transcription_job"
                    /\ Events(IsPoll) = <<>> /\ polls = 0 /\ status = "NONE"
                    /\ Events(IsLanguageCall) = <<>>
                    /\ \A a \in store : a.kind = "audio_inputs"
                    /\ pc \in {"raised", "returned", "c_finally"}
                    /\ (pc = "raised") => (err = Exc("ClientError", <<"start_transcription_job">>))
                    /\ (pc = "returned") => (prog = "scripts" /\ ret = <<[value |-> FALSE]>>)

C24_Witness ==
    /\ prog = "process_a" /\ pc = "raised"
    /\ StartRejected
    /\ log[Len(log)].op = "delete_transcription_job"
    /\ store = {Art(env, "audio_inputs", "")}

\* the job's result document was fetched successfully
Downloaded ==
    \E j \in DOMAIN log :
        /\ log[j].op \in {"get_transcript", "get_object"}
        /\ log[j].ok

(* C25: on COMPLETED, the text handed to translation (and persisted as the  *)
(* transcript) is exactly the first transcript field of the job's result    *)
(* document (results.transcripts[0].transcript), not the raw document; if   *)
(* the document does not have that shape the run fails with an error and no *)
(* target language is attempted (handler.lambda_handler, the                *)
(* transcribe_audio variants and lambda_function.lambda_handler).           *)
C25_TranscriptFieldExtracted ==
    /\ Downloaded => (doc.shape /\ text = doc.transcript)
    /\ (prog \in {"handler", "lambda_function"})
          => \A k \in DOMAIN sent : doc.shape /\ sent[k] = doc.transcript
    /\ (prog \in CliProgs /\ sent # <<>>)
          => (doc.shape /\ sent \in {RunChunks[prog][doc.transcript],
                                     SubSeq(RunChunks[prog][doc.transcript], 1, Len(sent))})
    /\ ~doc.shape
          => /\ Events(IsLanguageCall) = <<>>
             /\ \A a \in store : a.kind = "audio_inputs"
             /\ (Finished /\ \E j \in DOMAIN log :
                                 log[j].op \in {"get_transcript", "get_object"})
                   => (pc = "raised" \/ ret = <<[value |-> FALSE]>>)

\* the two runs work on assets with the same filename stem
SameStem == runs[1].stem = runs[2].stem

(* C26: two pipeline runs executing concurrently (any interleaving of their *)
(* steps) share no mutable state: for two runs whose assets have the same   *)
(* filename stem, the transcription job names, the local temporary files    *)
(* and therefore the content each run uploads are its own, so no run ever   *)
(* uploads a transcript, translation or audio produced by the other run.    *)
C26_RunsShareNothing ==
    (pc = "concurrent" /\ SameStem)
        => /\ (runs[1].job # NoJob /\ runs[2].job # NoJob) => (runs[1].job # runs[2].job)
           /\ \A r \in RunIds :
                 (runs[r].pc = "put" /\ prog # "handler")
                     => files[TempPath(runs[r].stem, runs[r].kind)].of = r
           /\ \A u \in uploads : u.body.of = u.run

(* C27: a run-scoped cancellation signal raised while the run is polling    *)
(* the transcription job or processing a target language makes the run stop *)
(* promptly (no further status poll and no further provider call is started *)
(* after the signal) and end with a Cancelled outcome, never with a success *)
(* outcome (handler.lambda_handler).                                        *)
C27_CancellationStopsRun ==
    [][cancelled => /\ log' = log
                    /\ polls' = polls
                    /\ store' = store
                    /\ pc' \notin {"h_poll", "returned"}]_<<pc, log, polls, store>>

\* the forms a chunk made of the units U[i..j] may take: the units with or
\* without the boundary space between them, with or without outer whitespace
RunForms(U, i, j) ==
    {Join(SubSeq(U, i, j), <<>>), Join(SubSeq(U, i, j), <<" ">>),
     Strip(Join(SubSeq(U, i, j), <<>>)), Strip(Join(SubSeq(U, i, j), <<" ">>))}

\* the chunks cs are the units U[i..Len(U)] cut at unit boundaries only,
\* with nothing left out (empty chunks aside)
RECURSIVE CutAtBoundaries(_, _, _)
CutAtBoundaries(cs, U, i) ==
    IF cs = <<>> THEN \A k \in i..Len(U) : Strip(U[k]) = <<>>
    ELSE \/ cs[1] = <<>> /\ CutAtBoundaries(Tail(cs), U, i)
         \/ \E j \in i..Len(U) :
               cs[1] \in RunForms(U, i, j) /\ CutAtBoundaries(Tail(cs), U, j + 1)

(* C28: sentence units are delimited only by the three boundary sequences   *)
(* ". ", "? " and "! ": for every text, including text that contains the    *)
(* character "|", a chunk boundary is placed only directly after one of     *)
(* these sequences, and every character of the text other than the boundary *)
(* space appears in the chunks (translate_text, and synthesize_speech of    *)
(* the AudioProcessor classes).                                             *)
C28_BoundariesOnlyAfterPunctuation ==
    /\ (pc = "t_done") => CutAtBoundaries(sent, Units(text), 1)
    /\ (pc = "s_done" /\ prog # "scripts") => CutAtBoundaries(spoken, Units(text), 1)

(* C29: per-chunk results are one-to-one and in order with the chunks: each *)
(* chunk is sent to the provider exactly once (no retry, no skipped chunk), *)
(* the translated text is the per-chunk translations joined in chunk order  *)
(* with exactly one space between consecutive results, and the synthesized  *)
(* audio is the per-chunk audio byte strings concatenated in chunk order    *)
(* with nothing inserted between them.                                      *)
C29_ResultsInChunkOrder ==
    /\ (pc = "t_done")
          => /\ spoken = <<>>
             /\ \/ sent = <<>> /\ result = <<>>
                \/ /\ sent # <<>>
                   /\ result = Answer(provider, sent[1])
                                  \o Join([i \in 1..(Len(sent) - 1) |->
                                              <<" ">> \o Answer(provider, sent[i + 1])],
                                          <<>>)
    /\ (pc = "s_done")
          => /\ sent = <<>>
             /\ Len(result) = Len(spoken)
             /\ \A i \in DOMAIN spoken : result[i] = [mp3 |-> spoken[i]]

C29_Witness ==
    /\ pc = "t_done" /\ text = Hello /\ provider = "es"
    /\ Len(sent) = 3
    /\ result = Hola \o <<" ">> \o ComoEstas \o <<" ">> \o Bien

(* C30: translate_text and synthesize_speech never call the provider with   *)
(* an empty chunk: for every text and limit, also when the first sentence   *)
(* unit is itself at or above the limit, every chunk sent to the            *)
(* translation or synthesis provider is a non-empty string.                 *)
C30_NoEmptyChunkSent ==
    (text # <<>>)
        => /\ \A i \in DOMAIN sent : sent[i] # <<>>
           /\ \A i \in DOMAIN spoken : spoken[i] # <<>>

\* ''.split(','): the value of TARGET_LANGUAGES when the variable is unset
\* or empty
NoTargetsConfigured == targets = <<"">>

(* C31: when no target languages are configured (TARGET_LANGUAGES unset or  *)
(* empty), handler.lambda_handler on a completed transcription writes only  *)
(* the transcript artifact: it makes no translation call, no synthesis call *)
(* and writes no translation or audio artifact; in general every language   *)
(* code passed to the translation provider is a non-empty configured code.  *)
C31_NoTargetsNoLanguageCalls ==
    (prog = "handler")
        => /\ NoTargetsConfigured
                 => /\ Events(IsLanguageCall) = <<>>
                    /\ \A a \in store : a.kind = "transcripts"
           /\ \A j \in DOMAIN log :
                 IsTranslate(log[j]) => (log[j].lang # "" /\ log[j].lang \in Range(targets))

NoEligibleRecord == \A i \in DOMAIN records : ~Eligible(records[i])

(* C32: lambda_function.lambda_handler returns a statusCode 200 response    *)
(* without raising for every event in which no record is eligible (empty    *)
(* Records, or every key lacks the "audio_inputs/" prefix or the ".mp3"     *)
(* suffix): skipped records cause no external call and the handler still    *)
(* ends normally.                                                           *)
C32_NoEligibleRecordReturns200 ==
    (prog = "lambda_function" /\ NoEligibleRecord)
        => /\ log = <<>>
           /\ pc # "raised"
           /\ Finished => (pc = "returned" /\ ret # <<>> /\ ret[1].statusCode = 200)

-----------------------------------------------------------------------------
\* S3 events with several records, delivered to the two Lambda entry points.
\* handler.py line 79 reads event['Records'][0] and nothing else of the list.

EventInit ==
    /\ prog \in {"handler", "lambda_function"}
    /\ pc = IF prog = "handler" THEN "h_entry" ELSE "l_loop"
    /\ records \in IF prog = "handler"
                    THEN SeqsUpTo(RecordKeys, MaxRecords) \ {<<>>}
                    ELSE SeqsUpTo(RecordKeys, MaxRecords)
    /\ key = IF prog = "handler" THEN records[1] ELSE NoKey
    /\ meta = <<>>
    /\ meta_changes = 0
    /\ output_key = <<>>
    /\ doc \in {Document(<<"a">>), Malformed}
    /\ cancelled = FALSE
    /\ env \in IF prog = "handler" THEN {""} ELSE Envs
    /\ targets \in IF prog = "handler"
                    THEN {<<"es">>, <<"es", "fr">>}
                    ELSE {<<l>> : l \in Langs}
    /\ voices \in IF prog = "handler" THEN {{}, {"es"}} ELSE {{}}
    /\ idx = 0
    /\ ridx = 1
    /\ bound = FALSE
    /\ tries0 = 0
    /\ max_tries = 0
    /\ polls = 0
    /\ status = "NONE"
    /\ reason = <<>>
    /\ log = <<>>
    /\ store = {}
    /\ err = NoErr
    /\ ret = <<>>
    /\ text = <<>>
    /\ limit = 0
    /\ provider = "echo"
    /\ sent = <<>>
    /\ result = <<>>
    /\ spoken = <<>>
    /\ runs = <<>> /\ jobs = <<>> /\ files = <<>> /\ uploads = {}
    /\ main = NoMain

EventNext ==
    \/ HandlerNext
    \/ LambdaNext

EventSpec == EventInit /\ [][EventNext]_vars

\* the record is one the entry point processes: handler.py line 82,
\* lambda_function.py line 19
EligibleFor(p, k) == IF p = "handler" THEN ~HandlerSkips(k) ELSE Eligible(k)
EligibleRecords == {i \in DOMAIN records : EligibleFor(prog, records[i])}

(* C33: every S3 record of the triggering event is processed: for an event  *)
(* with several records, each record with an eligible .mp3 key gets its own *)
(* transcription job, and a record is never silently ignored because of its *)
(* position in the event: an invocation that returns normally has submitted *)
(* one job per eligible record.                                             *)
C33_EveryRecordProcessed ==
    (prog \in {"handler", "lambda_function"} /\ pc = "returned")
        => Len(Events(IsStart)) = Cardinality(EligibleRecords)

-----------------------------------------------------------------------------
IsDelete(e) == e.op = "delete_transcription_job"
Deletions == Events(IsDelete)
InsideTranscribe == pc \in {"c_loop", "c_poll", "c_sleep", "c_download", "c_finally"}
TranscribeExited == Events(IsStart) # <<>> /\ ~InsideTranscribe

\* at most one deletion, exactly one once transcribe_audio was left, and no
\* submission, poll or download after it
CleanupOnce ==
    /\ Len(Deletions) <= 1
    /\ TranscribeExited => Len(Deletions) = 1
    /\ \A j \in DOMAIN log :
          IsDelete(log[j])
              => \A k \in DOMAIN log :
                    (IsStart(log[k]) \/ IsPoll(log[k]) \/ log[k].op = "get_transcript")
                        => k < j
    /\ (pc = "c_finally" /\ err = NoErr) => (Downloaded /\ text = doc.transcript)

\* the step out of the finally clause: what the caller gets was fixed before
\* the deletion was attempted
OutcomeKept ==
    (pc = "c_finally")
        => IF err = NoErr
           THEN pc' = "c_put_transcript" /\ err' = NoErr /\ ret' = ret /\ text' = text
           ELSE IF prog = "scripts"
                THEN pc' = "returned" /\ ret' = <<[value |-> FALSE]>>
                ELSE pc' = "raised" /\ err' = err

(* C34: in the transcribe_audio variants that clean up (process_a.py and    *)
(* scripts/process_audio.py), deletion of the transcription job is          *)
(* attempted exactly once on every exit path (transcript returned, job      *)
(* FAILED, poll cap exhausted, submission rejected, result document         *)
(* unparsable), always after the last status poll and, on success, after    *)
(* the transcript was downloaded; a failure of the deletion never changes   *)
(* the outcome returned or raised to the caller.                            *)
C34_CleanupOnceOnEveryExit ==
    [][HasCleanup(prog) => (CleanupOnce' /\ OutcomeKept)]_vars

\* the transcript is returned although the deletion failed
C34_Witness ==
    /\ HasCleanup(prog) /\ pc = "c_put_transcript"
    /\ Downloaded /\ text = doc.transcript
    /\ \E j \in DOMAIN log : IsDelete(log[j]) /\ ~log[j].ok

-----------------------------------------------------------------------------
(* main() of process_a.py, process_audio.py and scripts/process_audio.py:   *)
(* every .mp3 file of the input folder goes through process_file /          *)
(* process_audio_file, one after the other.                                 *)

\* the most files the input folder holds
MaxFiles == 2
\* list(input_path.glob('*.mp3')): distinct paths, in the order the file
\* system lists them
FileLists == {f \in SeqsUpTo({"a", "b", "c"}, MaxFiles) :
                 \A i, j \in DOMAIN f : (f[i] = f[j]) => (i = j)}

\* mutant: the exit status ignores the failures
ExitStatus_alwaysZero(failed) == 0

\* `if error_count > 0: exit(1)`; falling off main() exits with status 0
ExitStatus(failed) == IF failed > 0 THEN 1 ELSE 0

\* what main() and the calls it makes leave alone
MFixed == /\ UNCHANGED <<prog, meta, meta_changes, output_key, doc, cancelled, env, targets,
                         voices, idx, records, ridx, bound, tries0, store>>
          /\ UNCHANGED <<limit, provider>>
          /\ UNCHANGED cvars
\* the locals of one process_file call
MLocals == <<key, max_tries, polls, status, reason, log, err, ret, text, sent, result, spoken>>

\* configuration checks, the folder check and the glob; exit(1) / exit(0)
\* before the loop
main_discover ==
    /\ prog \in CliProgs /\ pc = "m_config"
    /\ \E configured \in BOOLEAN, exists \in BOOLEAN, found \in FileLists :
          IF ~configured \/ ~exists
          THEN /\ pc' = "m_abort"
               /\ main' = [main EXCEPT !.exit_status = <<1>>]
          ELSE IF found = <<>>
               THEN /\ pc' = "exited"
                    /\ main' = [main EXCEPT !.exit_status = <<0>>]
               ELSE /\ pc' = "m_loop"
                    /\ main' = [main EXCEPT !.mp3_files = found]
    /\ UNCHANGED MLocals
    /\ MFixed

\* `for mp3_file in mp3_files:` and the call of process_file on the next file
main_loop ==
    /\ prog \in CliProgs /\ pc = "m_loop"
    /\ IF main.next > Len(main.mp3_files)
       THEN /\ pc' = "m_summary"
            /\ UNCHANGED main
            /\ UNCHANGED MLocals
       ELSE /\ pc' = "c_upload"
            /\ main' = [main EXCEPT !.attempted = Append(@, main.mp3_files[main.next])]
            /\ key' = Key("audio_inputs/", main.mp3_files[main.next], ".mp3")
            /\ max_tries' = 0 /\ polls' = 0 /\ status' = "NONE" /\ reason' = <<>>
            /\ log' = <<>> /\ err' = NoErr /\ ret' = <<>>
            /\ text' = <<>> /\ sent' = <<>> /\ result' = <<>> /\ spoken' = <<>>
    /\ MFixed

\* the call came back: success_count / error_count by `except Exception`, or
\* results.append((mp3_file.name, success)); an exception that escapes
\* process_audio_file ends main() with a traceback
main_record ==
    /\ prog \in CliProgs /\ pc \in {"returned", "raised"}
    /\ main.next <= Len(main.mp3_files)
    /\ LET file == main.mp3_files[main.next]
           ok   == pc = "returned" /\ (prog = "scripts" => ret[1].value)
       IN  IF prog = "scripts"
           THEN IF pc = "raised"
                THEN /\ pc' = "exited"
                     /\ main' = [main EXCEPT !.outcomes = Append(@, FALSE),
                                             !.exit_status = <<1>>]
                ELSE /\ pc' = "m_loop"
                     /\ main' = [main EXCEPT !.outcomes = Append(@, ok),
                                             !.results = Append(@, <<file, ret[1].value>>),
                                             !.next = @ + 1]
           ELSE /\ pc' = "m_loop"
                /\ main' = [main EXCEPT !.outcomes = Append(@, ok),
                                        !.success_count = IF ok THEN @ + 1 ELSE @,
                                        !.error_count = IF ok THEN @ ELSE @ + 1,
                                        !.next = @ + 1]
    /\ UNCHANGED MLocals
    /\ MFixed

\* the summary and the exit status; scripts/process_audio.py counts its
\* results here (successful, failed)
main_summary ==
    /\ prog \in CliProgs /\ pc = "m_summary"
    /\ LET successful == Cardinality({i \in DOMAIN main.results : main.results[i][2]})
           failed     == Len(main.results) - successful
           counted    == IF prog = "scripts"
                         THEN [main EXCEPT !.success_count = successful,
                                           !.error_count = failed]
                         ELSE main
       IN  main' = [counted EXCEPT !.exit_status = <<ExitStatus(counted.error_count)>>]
    /\ pc' = "exited"
    /\ UNCHANGED MLocals
    /\ MFixed

BatchInit ==
    /\ prog \in CliProgs
    /\ pc = "m_config"
    /\ key = NoKey
    /\ meta = <<>>
    /\ meta_changes = 0
    /\ output_key = <<>>
    /\ doc \in {Document(<<"a">>), Malformed}
    /\ cancelled = FALSE
    /\ env = IF prog = "process_a" THEN "" ELSE ENV_PREFIX
    /\ targets = <<"es">>
    /\ voices = {}
    /\ idx = 0
    /\ records = <<>>
    /\ ridx = 1
    /\ bound = FALSE
    /\ tries0 \in IF HasPollCap(prog) THEN {1, MaxTries} ELSE {0}
    /\ max_tries = 0
    /\ polls = 0
    /\ status = "NONE"
    /\ reason = <<>>
    /\ log = <<>>
    /\ store = {}
    /\ err = NoErr
    /\ ret = <<>>
    /\ text = <<>>
    /\ limit = RunLimit
    /\ provider = "echo"
    /\ sent = <<>>
    /\ result = <<>>
    /\ spoken = <<>>
    /\ runs = <<>> /\ jobs = <<>> /\ files = <<>> /\ uploads = {}
    /\ main = NoMain

BatchNext ==
    \/ main_discover
    \/ main_loop
    \/ main_record
    \/ main_summary
    \/ CliNext

BatchSpec == BatchInit /\ [][BatchNext]_vars

\* how many of the calls so far ended as b (TRUE: the file succeeded)
Ended(b) == Cardinality({i \in DOMAIN main.outcomes : main.outcomes[i] = b})
Uploaded(kind) ==
    \E j \in DOMAIN log : log[j].op = "upload_file" /\ log[j].kind = kind /\ log[j].ok

(* C35: batch processing in main: every discovered .mp3 file is attempted   *)
(* exactly once, in order, regardless of failures of earlier files; after   *)
(* the loop the number of successes plus the number of failures equals the  *)
(* number of files; and the process exits with a non-zero status if and     *)
(* only if at least one file failed. In scripts/process_audio.py,           *)
(* process_audio_file never raises and returns True only if the input,      *)
(* transcript, translation and audio uploads all succeeded.                 *)
C35_BatchAttemptsEveryFile ==
    (prog \in CliProgs /\ pc # "m_abort")
        => /\ Len(main.attempted) <= Len(main.mp3_files)
           /\ main.attempted = SubSeq(main.mp3_files, 1, Len(main.attempted))
           /\ Len(main.attempted) - Len(main.outcomes) \in {0, 1}
           /\ (pc = "exited")
                 => /\ main.attempted = main.mp3_files
                    /\ Len(main.outcomes) = Len(main.mp3_files)
                    /\ main.success_count = Ended(TRUE)
                    /\ main.error_count = Ended(FALSE)
                    /\ main.success_count + main.error_count = Len(main.mp3_files)
                    /\ (main.exit_status # <<0>>) <=> (Ended(FALSE) > 0)
           /\ (prog = "scripts")
                 => /\ pc # "raised"
                    /\ (pc = "returned" /\ ret[1].value)
                          => \A kind \in {"audio_inputs", "transcripts", "translations",
                                          "audio_outputs"} : Uploaded(kind)

\* the first file failed, the second was still processed, and the exit
\* status reports the failure
C35_Witness ==
    /\ prog \in CliProgs /\ pc = "exited"
    /\ Len(main.mp3_files) = 2
    /\ main.outcomes = <<FALSE, TRUE>>
    /\ main.exit_status = <<1>>

====
